---- MODULE Spec2Model ----
(***************************************************************************)
(* Request-scoped identity layer of teradata-mcp-server:                   *)
(*   RequestContextMiddleware.on_request (server.py), the credential       *)
(*   validator TDConn.validate_auth_header (tools/td_connect.py) with its  *)
(*   header helpers (tools/utils.py), the auth cache the middleware        *)
(*   consults, and the downstream read of the published RequestContext     *)
(*   in execute_db_tool.                                                   *)
(*                                                                         *)
(* Text is modelled as a sequence of one-character strings, so that        *)
(* splitting and stripping are computed as the code computes them.         *)
(* Opaque wire material (base64 text, JWT text, hex digests) is a string   *)
(* whose decoding is given by a table.                                     *)
(***************************************************************************)
EXTENDS Naturals, Sequences, FiniteSets, TLC

(* ------------------------------ bounds -------------------------------- *)
\* Last instant of the clock (seconds are scaled to cache lifetimes).
MaxTime == 2
\* AUTH_CACHE_TTL in clock units (server.py:154 reads it from the environment).
CacheTtl == 1
\* Calls that may arrive without a transport context (each draws a fresh uuid4).
MaxUuid == 1
\* AUTH_RATE_LIMIT_ATTEMPTS / AUTH_RATE_LIMIT_WINDOW in clock units (config).
RateLimitAttempts == 2
RateLimitWindow == 2

(* ------------------------------- text --------------------------------- *)
\* Python None where a str is expected.
NONE == <<"None">>
Alice == <<"a", "l", "i", "c", "e">>
Carol == <<"c", "a", "r", "o", "l">>
Pw == <<"p", "w">>

\* Python truthiness of an optional str: None and "" are falsy.
Truthy(s) == s # NONE /\ s # <<>>

\* str.strip() on a character sequence.
RECURSIVE LStrip(_)
LStrip(s) == IF s # <<>> /\ Head(s) = " " THEN LStrip(Tail(s)) ELSE s
RECURSIVE RStrip(_)
RStrip(s) ==
    IF s # <<>> /\ s[Len(s)] = " " THEN RStrip(SubSeq(s, 1, Len(s) - 1)) ELSE s
Strip(s) == LStrip(RStrip(s))

\* Index of the first occurrence of ch in s, 0 when there is none.
FirstIndex(s, ch) ==
    IF \E i \in 1..Len(s) : s[i] = ch
    THEN CHOOSE i \in 1..Len(s) : s[i] = ch /\ \A j \in 1..(i - 1) : s[j] # ch
    ELSE 0

(* --------------------------- wire material ---------------------------- *)
\* Credential parts (the text after the scheme) that calls carry.
TokAlicePw == "YWxpY2U6cHc="
TokAliceBad == "YWxpY2U6YmFk"
TokNoColon == "YWxpY2Vwdw=="
TokJwtCarol == "eyJhbGci.eyJwcmVm.c2lnMQ"
TokJwtExpired == "eyJhbGci.eyJleHAi.c2lnMg"
\* A token whose payload is {"sub": ""}.
TokJwtEmptySub == "eyJhbGci.eyJzdWIiOiIifQ.c2lnMw"
TokDigest == "abc123"
\* base64 of ":pw" and of "alice:", and a text base64 cannot decode (padding).
TokNoUser == "OnB3"
TokNoSecret == "YWxpY2U6"
TokBadPad == "abc"
Tokens ==
    {"", TokAlicePw, TokAliceBad, TokNoColon, TokJwtCarol, TokJwtExpired, TokDigest,
     TokNoUser, TokNoSecret, TokBadPad, TokJwtEmptySub}

\* base64.b64decode(value).decode("utf-8"): the text, or a failure (bad padding).
B64Decode(tok) ==
    CASE tok = TokAlicePw  -> [ok |-> TRUE, text |-> Alice \o <<":">> \o Pw]
      [] tok = TokAliceBad -> [ok |-> TRUE, text |-> Alice \o <<":">> \o (<<"b", "a", "d">>)]
      [] tok = TokNoColon  -> [ok |-> TRUE, text |-> Alice \o Pw]
      [] tok = TokNoUser   -> [ok |-> TRUE, text |-> <<":">> \o Pw]
      [] tok = TokNoSecret -> [ok |-> TRUE, text |-> Alice \o <<":">>]
      [] tok = ""          -> [ok |-> TRUE, text |-> <<>>]
      [] OTHER             -> [ok |-> FALSE, text |-> <<>>]

\* hashlib.sha256(token.encode("utf-8")).hexdigest(): one-way, distinct per token.
Sha256Hex(tok) ==
    CASE tok = TokAlicePw    -> "9153fd6c499a"
      [] tok = TokAliceBad   -> "b48cca4f0c3b"
      [] tok = TokNoColon    -> "98e9fe1af7d0"
      [] tok = TokJwtCarol   -> "a60d8a5c417a"
      [] tok = TokJwtExpired -> "8e7874be51f6"
      [] tok = TokDigest     -> "6ca13d52ca70"
      [] tok = TokNoUser     -> "e8e11f342b03"
      [] tok = TokJwtEmptySub -> "27e358659fe6"
      [] tok = TokNoSecret   -> "a5a9f70d6e18"
      [] tok = TokBadPad     -> "ba7816bf8f01"
      [] tok = ""            -> "e3b0c44298fc"

\* str.lower() on the scheme words that occur.
Lower(w) ==
    CASE w = "Basic"  -> "basic"
      [] w = "Bearer" -> "bearer"
      [] w = "Digest" -> "digest"
      [] OTHER        -> w

\* An Authorization header value: scheme, then (when sp) one space and the token.
Hdr(scheme, sp, token) ==
    [present |-> TRUE, scheme |-> scheme, sp |-> sp, token |-> token]
\* headers.get("authorization") is None.
NoHeader == [present |-> FALSE, scheme |-> "", sp |-> FALSE, token |-> ""]
BasicAlice == Hdr("Basic", TRUE, TokAlicePw)
BasicAliceBad == Hdr("Basic", TRUE, TokAliceBad)
BearerCarol == Hdr("Bearer", TRUE, TokJwtCarol)

(* -------------------------- backing system ---------------------------- *)
\* Logins the backing system accepts with the default LOGMECH.
DbLogins == {<<Alice, Pw>>}
\* Tokens the backing system accepts with LOGMECH=JWT.
DbJwts == {TokJwtCarol}

(* ----------------------- tools/utils.py helpers ----------------------- *)
\* parse_auth_header: (scheme.strip().lower(), value.strip()); ("", "") if missing.
parse_auth_header(h) ==
    IF ~h.present THEN <<"", "">>
    ELSE <<Lower(h.scheme), IF h.sp THEN h.token ELSE "">>

\* parse_basic_credentials: (user, secret), or (None, None).
parse_basic_credentials(b64_value) ==
    LET d == B64Decode(b64_value)
        raw == d.text
        i == FirstIndex(raw, ":")
        user == Strip(SubSeq(raw, 1, i - 1))
        secret == Strip(SubSeq(raw, i + 1, Len(raw)))
    IN  IF ~d.ok THEN <<NONE, NONE>>
        ELSE IF i = 0 THEN <<NONE, NONE>>
        ELSE IF user = <<>> \/ secret = <<>> THEN <<NONE, NONE>>
        ELSE <<user, secret>>

\* extract_unverified_jwt_claims: the payload's claims, {} when parsing fails.
\* A claim set is a function from claim names to text.
extract_unverified_jwt_claims(token) ==
    CASE token = TokJwtCarol   -> [n \in {"preferred_username", "sub"} |->
                                      IF n = "sub" THEN <<"u", "7">> ELSE Carol]
      [] token = TokJwtExpired -> [n \in {"sub"} |-> <<"u", "9">>]
      [] token = TokJwtEmptySub -> [n \in {"sub"} |-> <<>>]
      [] OTHER                 -> ([n \in {} |-> <<>>])

\* USERMAP_STRATEGY as read by validate_auth_header (its default).
UsermapStrategy == <<"claim", "preferred_username">>

\* Fault: without a value from the strategy, the subject claim is taken.
map_principal_SubByDefault(claims, strategy, fallback) ==
    LET get(n) == IF n \in DOMAIN claims THEN claims[n] ELSE NONE
        principal == IF strategy[1] = "claim" THEN get(strategy[2]) ELSE NONE
    IN  IF Truthy(principal) THEN principal ELSE get("sub")

\* map_principal_from_claims(claims, strategy, fallback).
map_principal_from_claims(claims, strategy, fallback) ==
    LET get(n) == IF n \in DOMAIN claims THEN claims[n] ELSE NONE
        val == IF Truthy(get("preferred_username")) THEN get("preferred_username")
               ELSE IF Truthy(get("upn")) THEN get("upn")
               ELSE get("sub")
        at == FirstIndex(val, "@")
        bs == FirstIndex(val, "\\")
        cut == IF at = 0 THEN bs ELSE IF bs = 0 THEN at
               ELSE IF at < bs THEN at ELSE bs
        principal ==
            CASE strategy[1] = "claim" -> get(strategy[2])
              [] strategy[1] = "transform" /\ strategy[2] = "sam" ->
                    IF val = NONE THEN NONE
                    ELSE IF cut = 0 THEN val ELSE SubSeq(val, 1, cut - 1)
              [] strategy = <<"username">> -> fallback
              [] OTHER -> NONE
    IN  IF DOMAIN claims = {} THEN fallback
        ELSE IF Truthy(principal) THEN principal ELSE fallback

(* ------------------- tools/td_connect.py: validator ------------------- *)
\* _quick_password_validation: a short-lived connection with user/secret; True
\* when the probe query ran, False on any exception (net_ok: the network and
\* the backing system answered within QUERY_TIMEOUT).
quick_password_validation(user, secret, net_ok) ==
    net_ok /\ <<user, secret>> \in DbLogins

\* _quick_jwt_validation: a short-lived connection with LOGMECH=JWT.
quick_jwt_validation(jwt_token, net_ok) ==
    net_ok /\ jwt_token \in DbJwts

\* Fault: a probe that failed is made a second time.
Returned_Retried(principal, probes) ==
    [principal |-> principal, raised |-> "none",
     probes |-> IF principal = NONE THEN 2 * probes ELSE probes]

\* What one call of validate_auth_header did: the principal it returned (or
\* None), the exception it raised ("none": it returned), the probes it opened.
Returned(principal, probes) ==
    [principal |-> principal, raised |-> "none", probes |-> probes]

\* TDConn.validate_auth_header(auth_header).
validate_auth_header(auth_header, net_ok) ==
    LET parsed == parse_auth_header(auth_header)
        scheme == parsed[1]
        value == parsed[2]
        creds == parse_basic_credentials(value)
        user == creds[1]
        secret == creds[2]
        claims == extract_unverified_jwt_claims(value)
    IN  IF scheme = "" \/ value = "" THEN Returned(NONE, 0)
        ELSE IF scheme = "basic" THEN
            IF ~Truthy(user) \/ ~Truthy(secret) THEN Returned(NONE, 0)
            ELSE IF quick_password_validation(user, secret, net_ok)
                 THEN Returned(user, 1)
                 ELSE Returned(NONE, 1)
        ELSE IF scheme = "bearer" THEN
            IF ~quick_jwt_validation(value, net_ok) THEN Returned(NONE, 1)
            ELSE Returned(map_principal_from_claims(claims, UsermapStrategy, NONE), 1)
        ELSE Returned(NONE, 0)

(* --------------------------- SecureAuthCache -------------------------- *)
\* (session id, credential hash) -> (principal, expires_at).
EmptyCache == [k \in {} |-> [principal |-> NONE, expires_at |-> 0]]

\* Fault: get hands out an entry without looking at its expiry.
CacheGet_IgnoresExpiry(cch, t, session_id, credential_hash) ==
    LET k == <<session_id, credential_hash>>
    IN  IF k \in DOMAIN cch THEN cch[k].principal ELSE NONE

\* get(session_id, credential_hash): the principal while now < expires_at.
CacheGet(cch, t, session_id, credential_hash) ==
    LET k == <<session_id, credential_hash>>
    IN  IF k \in DOMAIN cch /\ t < cch[k].expires_at THEN cch[k].principal ELSE NONE

\* set(session_id, principal, credential_hash): lifetime counted from insertion.
CacheSet(cch, t, session_id, principal, credential_hash) ==
    LET k == <<session_id, credential_hash>>
    IN  [x \in DOMAIN cch \cup {k} |->
            IF x = k THEN [principal |-> principal, expires_at |-> t + CacheTtl]
            ELSE cch[x]]

\* clear().
CacheClear(cch) == EmptyCache

\* Entries are destroyed by TTL expiry: those already stale at instant t are
\* swept when the clock moves on (get refuses them whether swept or not).
CacheSweep(cch, t) ==
    [k \in {x \in DOMAIN cch : t < cch[x].expires_at} |-> cch[k]]

(* ------------------ server.py: RequestContextMiddleware --------------- *)
\* Python None where an identifier, a scheme word or a digest is expected.
NoId == <<"none", 0>>
NoneS == "<None>"

\* What the host transport supplies with a call: a FastMCP context carrying the
\* JSON-RPC request id and the transport session id, or no context at all.
NoCtx == [has |-> FALSE, request_id |-> NoId, session_id |-> NoId]
Ctx(rid, sid) ==
    [has |-> TRUE, request_id |-> <<"req", rid>>, session_id |-> <<"mcp", sid>>]

Calls == {"c1", "c2"}

VARIABLES
    auth_mode,    \* os.getenv("AUTH_MODE", "none").lower()
    now,          \* the clock
    halted,       \* shutdown() ran (os._exit)
    nuuid,        \* uuid4() values drawn so far
    cache,        \* _session_auth_cache
    pc,           \* where each call slot is in on_request / call_next
    req,          \* the headers and transport context of the call in the slot
    assume_user,  \* on_request's local assume_user
    outcome,      \* "" while undecided, "passed", or the PermissionError text
    ctx_state,    \* fastmcp_context state "request_context" of the call
    observed,     \* what execute_db_tool read back from the call's context
    result,       \* what execute_db_tool did for the call
    ghost,        \* per call: cache reads/writes, validator calls, probes opened
    th,           \* cache stress: what each thread is doing on the cache
    lock,         \* cache stress: the holder of the cache's mutex
    hist,         \* cache stress: per key, the latest set since the last clear
    written,      \* cache stress: every (key, principal) some set wrote
    rl,           \* validator attempts: per identity the attempts of its window
    fin,          \* function checks: the arguments of the call under study
    fout,         \* function checks: whether it was made, and what it returned
    sessions,     \* session_manager.sessions
    current_session,  \* the current_session ContextVar, per request scope
    active_requests,  \* request_tracer.active_requests
    tr                \* tracer calls: where each worker thread is in its call

envvars == <<auth_mode, halted, nuuid>>
callvars == <<pc, req, assume_user, outcome, ctx_state, observed, result, ghost>>
stressvars == <<th, lock, hist, written>>
libvars == <<fin, fout, sessions, current_session>>
tracevars == <<active_requests, tr>>
vars == <<envvars, now, cache, callvars, stressvars, rl, libvars, tracevars>>

\* ctx.get_state("request_context") when nothing was stored: None.
NoRC == [stored |-> FALSE]

NoReq ==
    [authorization |-> NoHeader, x_assume_user |-> NONE, tctx |-> NoCtx,
     request_id |-> NoId, session_id |-> NoId]
\* What is on record about a call: the cache and validator calls made for it,
\* where its principal came from, and what the validator answered.
NoGhost ==
    [gets |-> 0, sets |-> 0, validations |-> 0, probes |-> 0, src |-> "-",
     v |-> ([principal |-> NONE, raised |-> "-", probes |-> 0])]

\* lines 236-246: the Authorization summary.
AuthSchemeOf(h) == IF h.present THEN h.scheme ELSE NoneS
HeaderToken(h) == IF h.sp THEN h.token ELSE ""
AuthTokenSha256(h) == IF h.present THEN Sha256Hex(HeaderToken(h)) ELSE NoneS

\* lines 248-256: request id from the FastMCP context, else uuid4().hex.
RequestIdOf(t, fresh) ==
    IF t.has /\ t.request_id # NoId THEN t.request_id ELSE fresh
\* lines 258-269: session_id = mcp_session or request_id.
SessionIdOf(t, request_id) ==
    IF t.has /\ t.session_id # NoId THEN t.session_id ELSE request_id

\* n times the character ch
Rep(ch, n) == [i \in 1..n |-> ch]

\* re.match(r"^[A-Za-z0-9_]{1,30}$", value)
MatchesIdentifier(v) ==
    /\ Len(v) >= 1
    /\ Len(v) <= 30
    /\ \A i \in 1..Len(v) : v[i] \in ({"a", "b", "c", "d", "e", "f", "g", "h", "i", "j", "k", "l",
                "m", "n", "o", "p", "q", "r", "s", "t", "u", "v", "w", "x", "y", "z", "A", "B",
                "C", "D", "E", "F", "G", "H", "I", "J", "K", "L", "M", "N", "O", "P", "Q", "R",
                "S", "T", "U", "V", "W", "X", "Y", "Z", "0", "1", "2", "3", "4", "5", "6", "7",
                "8", "9", "_"})

\* Fault: the header value is taken without the pattern test.
AssumeUserNone_Unchecked(r) == r.x_assume_user

\* lines 275-286: AUTH_MODE=none honours X-Assume-User only.
AssumeUserNone(r) ==
    IF r.x_assume_user # NONE /\ MatchesIdentifier(r.x_assume_user)
    THEN r.x_assume_user
    ELSE NONE

\* A decision of on_request: where the call goes next and with which locals.
Decision(next, user, message, gets, src) ==
    [next |-> next, assume_user |-> user, message |-> message,
     gets |-> gets, src |-> src]

\* Fault: the lookup takes whatever unexpired entry the session has, without
\* comparing the credential hash.
CachedPrincipal_AnyHash(cch, t, r) ==
    LET live == {k \in DOMAIN cch : k[1] = r.session_id /\ t < cch[k].expires_at}
    IN  IF live = {} THEN NONE ELSE cch[CHOOSE k \in live : TRUE].principal

\* line 299: _session_auth_cache.get(session_id, auth_token_sha256)
CachedPrincipal(cch, t, r) ==
    CacheGet(cch, t, r.session_id, AuthTokenSha256(r.authorization))

\* Fault: every scheme word is let through to the validator.
SchemeSupported_Any(h) == TRUE

\* lines 305-308: only basic and bearer reach the validator.
SchemeSupported(h) == Lower(h.scheme) \in {"basic", "bearer"}

\* Fault: the check for a missing Authorization header is left out.
BasicBegin_NoHeaderCheck(cch, t, r) ==
    LET h == r.authorization
        cached_principal == CacheGet(cch, t, r.session_id, AuthTokenSha256(h))
    IN  IF Truthy(cached_principal)
        THEN Decision("publish", cached_principal, "", 1, "cache")
        ELSE IF Lower(h.scheme) \notin {"basic", "bearer"}
             THEN Decision("rejected", NONE, "Unsupported auth scheme for basic mode", 1, "-")
        ELSE Decision("validate", NONE, "", 1, "-")

\* lines 289-308: AUTH_MODE=basic up to the validator call.
BasicBegin(cch, t, r) ==
    LET h == r.authorization
        cached_principal == CachedPrincipal(cch, t, r)
    IN  IF ~h.present THEN Decision("rejected", NONE, "Authentication required", 0, "-")
        ELSE IF Truthy(cached_principal)
             THEN Decision("publish", cached_principal, "", 1, "cache")
        ELSE IF ~SchemeSupported(h)
             THEN Decision("rejected", NONE, "Unsupported auth scheme for basic mode", 1, "-")
        ELSE Decision("validate", NONE, "", 1, "-")

\* Fault: the Authorization header is processed whatever the mode.
Begin_IgnoresMode(mode, cch, t, r) == BasicBegin(cch, t, r)

\* lines 273-308: the mode switch.
Begin(mode, cch, t, r) ==
    IF mode = "none"
    THEN Decision("publish", AssumeUserNone(r), "", 0,
                  IF AssumeUserNone(r) = NONE THEN "-" ELSE "header")
    ELSE BasicBegin(cch, t, r)

\* Fault: a validator that returned None is not treated as a failure.
RejectionFor_AcceptsNone(v) ==
    CASE v.raised = "RateLimitExceededError" ->
            "Too many authentication attempts. Please try again later."
      [] v.raised \in {"InvalidUsernameError", "InvalidTokenFormatError"} ->
            "Invalid authentication format"
      [] OTHER -> ""

\* Fault: the typed errors are not told apart from a failed check.
RejectionFor_GenericOnly(v) ==
    IF v.raised # "none" \/ ~Truthy(v.principal) THEN "Invalid credentials" ELSE ""

\* lines 313-330: what a validator outcome means for the call.
RejectionFor(v) ==
    CASE v.raised = "RateLimitExceededError" ->
            "Too many authentication attempts. Please try again later."
      [] v.raised \in {"InvalidUsernameError", "InvalidTokenFormatError"} ->
            "Invalid authentication format"
      [] v.raised # "none" \/ ~Truthy(v.principal) -> "Invalid credentials"
      [] OTHER -> ""

\* lines 367-380: the RequestContext of the call.
BuildRequestContext(r, user) ==
    [stored |-> TRUE,
     headers |-> [authorization |-> r.authorization,
                  x_assume_user |-> r.x_assume_user],
     request_id |-> r.request_id,
     session_id |-> r.session_id,
     auth_scheme |-> AuthSchemeOf(r.authorization),
     auth_token_sha256 |-> AuthTokenSha256(r.authorization),
     assume_user |-> user,
     user_id |-> user]

\* lines 382-385: set_state on the call's own FastMCP context, when there is one.
Published(r, user) ==
    IF r.tctx.has THEN BuildRequestContext(r, user) ELSE NoRC

\* Fault: the RequestContext is kept in one process-wide slot.
ContextOf_Shared(c) == "c1"

\* line 580 / 601: the state slot a call's downstream code reads.
ContextOf(c) == c

\* Fault: the cache is written before the validator's outcome is examined.
AfterValidation_Always(cch, t, r, v) ==
    CacheSet(cch, t, r.session_id, v.principal, AuthTokenSha256(r.authorization))

\* lines 329-334: the cache after the validator returned v for request r.
AfterValidation(cch, t, r, v) ==
    IF RejectionFor(v) = ""
    THEN CacheSet(cch, t, r.session_id, v.principal, AuthTokenSha256(r.authorization))
    ELSE cch

(* ------------------- server.py: the audit string --------------------- *)
\* _sanitize_qb_value after str(val): ';' becomes '_', a quote is doubled,
\* then strip().
RECURSIVE ReplaceQb(_)
ReplaceQb(s) ==
    IF s = <<>> THEN <<>>
    ELSE (CASE Head(s) = ";" -> <<"_">>
            [] Head(s) = "'" -> <<"'", "'">>
            [] OTHER -> <<Head(s)>>) \o ReplaceQb(Tail(s))
sanitize_qb_value(val) == IF val = NONE THEN <<>> ELSE Strip(ReplaceQb(val))

\* mcp.name, os.getenv("PROFILE"), "<nodename>:<pid>", and the tool called.
ProcessId == <<"h", "1", ":", "7">>
ToolName == <<"b", "a", "s", "e", "_", "r", "e", "a", "d">>

\* add(key, value) of _build_queryband_with_context: one "KEY=value;" part,
\* kept as the pair (KEY, value).
QbAdd(parts, key, value) ==
    IF value = NONE THEN parts ELSE Append(parts, <<key, sanitize_qb_value(value)>>)
\* s[:n]
Prefix(s, n) == SubSeq(s, 1, IF Len(s) < n THEN Len(s) ELSE n)
\* fwd.split(",")[0].strip()
FirstForwarded(fwd) ==
    LET i == FirstIndex(fwd, ",")
    IN  Strip(IF i = 0 THEN fwd ELSE SubSeq(fwd, 1, i - 1))

\* request_context is None, as _build_queryband_with_context receives it.
NoRequestContext == [is_none |-> TRUE]

\* _build_queryband_with_context(tool_name, request_context): the parts in
\* the order they are joined.
build_queryband_with_context(tool_name, request_context) ==
    LET rc == request_context
        p1 == QbAdd(<<>>, "APPLICATION", (<<"t", "e", "r", "a", "d", "a", "t", "a", "-", "m", "c",
                    "p", "-", "s", "e", "r", "v", "e", "r">>))
        p2 == QbAdd(p1, "PROFILE", (<<"d", "b", "a">>))
        p3 == QbAdd(p2, "PROCESS_ID", ProcessId)
        p4 == QbAdd(p3, "TOOL_NAME", tool_name)
    IN  IF rc.is_none THEN p4
        ELSE
        LET q1 == QbAdd(p4, "REQUEST_ID", rc.request_id)
            q2 == QbAdd(q1, "SESSION_ID", rc.session_id)
            q3 == QbAdd(q2, "TENANT", rc.tenant)
            client_ip == IF Truthy(rc.forwarded_for)
                         THEN FirstForwarded(rc.forwarded_for) ELSE NONE
            q4 == QbAdd(q3, "CLIENT_IP", client_ip)
            q5 == QbAdd(q4, "USER_AGENT", rc.user_agent)
            q6 == QbAdd(q5, "AUTH_SCHEME", rc.auth_scheme)
            q7 == IF Truthy(rc.auth_token_sha256)
                  THEN QbAdd(q6, "AUTH_HASH", Prefix(rc.auth_token_sha256, 12))
                  ELSE q6
        IN  IF Truthy(rc.assume_user) THEN QbAdd(q7, "PROXYUSER", rc.assume_user)
            ELSE q7

\* The keys that say who is calling.
IdentityKeys ==
    {"REQUEST_ID", "SESSION_ID", "TENANT", "CLIENT_IP", "USER_AGENT",
     "AUTH_SCHEME", "AUTH_HASH", "PROXYUSER"}
QbKeys(parts) == {parts[i][1] : i \in 1..Len(parts)}

(* ---------------------- server.py: execute_db_tool -------------------- *)
\* The characters of the scheme words and digests a RequestContext holds.
Chars(w) ==
    CASE w = "Basic" -> <<"B", "a", "s", "i", "c">>
      [] w = "Bearer" -> <<"B", "e", "a", "r", "e", "r">>
      [] w = "Digest" -> <<"D", "i", "g", "e", "s", "t">>
      [] w = "9153fd6c499a" -> <<"9", "1", "5", "3", "f", "d", "6", "c", "4", "9", "9", "a">>
      [] w = "b48cca4f0c3b" -> <<"b", "4", "8", "c", "c", "a", "4", "f", "0", "c", "3", "b">>
      [] w = "98e9fe1af7d0" -> <<"9", "8", "e", "9", "f", "e", "1", "a", "f", "7", "d", "0">>
      [] w = "a60d8a5c417a" -> <<"a", "6", "0", "d", "8", "a", "5", "c", "4", "1", "7", "a">>
      [] w = "8e7874be51f6" -> <<"8", "e", "7", "8", "7", "4", "b", "e", "5", "1", "f", "6">>
      [] w = "6ca13d52ca70" -> <<"6", "c", "a", "1", "3", "d", "5", "2", "c", "a", "7", "0">>
      [] w = "e8e11f342b03" -> <<"e", "8", "e", "1", "1", "f", "3", "4", "2", "b", "0", "3">>
      [] w = "a5a9f70d6e18" -> <<"a", "5", "a", "9", "f", "7", "0", "d", "6", "e", "1", "8">>
      [] w = "ba7816bf8f01" -> <<"b", "a", "7", "8", "1", "6", "b", "f", "8", "f", "0", "1">>
      [] w = "e3b0c44298fc" -> <<"e", "3", "b", "0", "c", "4", "4", "2", "9", "8", "f", "c">>
\* str() of a request or session id.
IdText(id) ==
    (CASE id[1] = "req" -> <<"r", "e", "q">>
       [] id[1] = "mcp" -> <<"m", "c", "p">>
       [] id[1] = "uuid" -> <<"u", "u", "i", "d">>)
        \o <<(<<"0", "1", "2", "3", "4", "5", "6", "7", "8", "9">>)[id[2] + 1]>>
\* The RequestContext execute_db_tool hands to the builder, its fields as text;
\* the header map of a call carries no tenant, forwarded-for or user agent.
RcText(rc) ==
    IF ~rc.stored THEN NoRequestContext
    ELSE [is_none |-> FALSE,
          request_id |-> IdText(rc.request_id),
          session_id |-> IdText(rc.session_id),
          tenant |-> NONE, forwarded_for |-> NONE, user_agent |-> NONE,
          auth_scheme |-> IF rc.auth_scheme = NoneS THEN NONE
                          ELSE Chars(rc.auth_scheme),
          auth_token_sha256 |-> IF rc.auth_token_sha256 = NoneS THEN NONE
                                ELSE Chars(rc.auth_token_sha256),
          assume_user |-> rc.assume_user]

\* get_context() of fastmcp.server.dependencies: the call's context; without
\* an active context it hands back None or raises RuntimeError, depending on
\* the library.
GetContext(t) == IF t.has THEN {"context"} ELSE {"none", "raises"}

NoResult == [status |-> "-", queryband |-> <<>>, conn |-> <<>>]
\* execute_db_tool, lines 572-630: the context lookup, the audit string, the
\* SET QUERY_BAND statement (set_ok: the backing system accepted it; an
\* exception of it is logged and dropped, lines 586-591), then the tool on the
\* same connection; conn is what ran on the connection, in order. An exception
\* of the lookup ends in an error response.
execute_db_tool(lookup, request_context, set_ok) ==
    IF lookup = "raises" THEN [status |-> "error", queryband |-> <<>>, conn |-> <<>>]
    ELSE [status |-> "executed",
          queryband |-> build_queryband_with_context(ToolName,
                                                     RcText(request_context)),
          conn |-> IF set_ok THEN <<"set_query_band", "tool">> ELSE <<"tool">>]

(* ------------------------- cache stress harness ----------------------- *)
Threads == {"t1", "t2"}
Free == "free"
\* Keys that overlap in the session id and keys that are distinct, and the
\* principals the stress writes under them.
IdleThread ==
    [pc |-> "idle", op |-> "-", sid |-> NoId, hash |-> NoneS,
     principal |-> NONE, result |-> NONE]
NoHist == [k \in {} |-> [principal |-> NONE, at |-> 0]]

\* A get leaves every entry as it is: reading is not a touch.
CacheAfterGet(cch, t, session_id, credential_hash) == cch

\* Fault: the critical section is left without releasing the mutex.
LockAfterRelease_Leak(t) == t

\* The mutex after its holder leaves the critical section.
LockAfterRelease(t) == Free

(* ------------------------- validator attempts ------------------------- *)
\* The identity an attempt is made for: the Basic user, the token's principal.
AttemptIdentity(h) ==
    LET parsed == parse_auth_header(h)
    IN  IF parsed[1] = "basic" THEN parse_basic_credentials(parsed[2])[1]
        ELSE map_principal_from_claims(
                 extract_unverified_jwt_claims(parsed[2]), UsermapStrategy, NONE)
\* Basic headers whose payload is no user:secret pair.
MalformedBasic == {(Hdr("Basic", TRUE, TokNoColon)), (Hdr("Basic", TRUE, TokNoUser)), (Hdr("Basic",
            TRUE, TokNoSecret)), (Hdr("Basic", TRUE, TokBadPad))}
RateInputs == {BasicAlice, BasicAliceBad, BearerCarol} \cup MalformedBasic
RateIdentities == {AttemptIdentity(h) : h \in RateInputs}

(* -------------------- auth/session_context.py ------------------------- *)
\* The slots of a function check before anything is drawn or called.
NoOutput == [done |-> FALSE]

\* A header map as the session manager reads it. Credentials (tokens, keys)
\* are strings, NoneS when the header is absent; names are text, NONE when
\* absent.
SessionHeaders(authorization, account, service_token, api_key, user, sid) ==
    [kind |-> "headers", authorization |-> authorization,
     x_service_account |-> account, x_service_token |-> service_token,
     x_api_key |-> api_key, x_user_id |-> user, x_session_id |-> sid]
Svc == <<"s", "v", "c">>

\* None, and a claim record.
NoAuth == [is_none |-> TRUE]
AuthInfo(user_id, username, token, auth_type) ==
    [is_none |-> FALSE, user_id |-> user_id, username |-> username,
     token |-> token, auth_type |-> auth_type]

\* Tokens of three dot-separated parts whose payload decodes to a JSON object.
\* f"bearer_user_{hash(token) % 10000}", f"api_user_{hash(api_key) % 10000}":
\* hash() is fixed for the life of the process.
HashText(w) == IF w = "" THEN <<"0">> ELSE IF w = TokDigest THEN <<"4", "2">> ELSE <<"7">>
BearerUser(token) ==
    <<"b", "e", "a", "r", "e", "r", "_", "u", "s", "e", "r", "_">> \o HashText(token)
ApiUser(api_key) ==
    <<"a", "p", "i", "_", "u", "s", "e", "r", "_">> \o HashText(api_key)
\* dict.get(name), None when the key is absent.
ClaimGet(claims, n) == IF n \in DOMAIN claims THEN claims[n] ELSE NONE

\* SessionManager._extract_bearer_token_auth
extract_bearer_token_auth(headers) ==
    LET h == headers.authorization
        token == h.token
        decoded == extract_unverified_jwt_claims(token)
    IN  IF ~(h.present /\ h.scheme = "Bearer" /\ h.sp) THEN NoAuth
        ELSE IF token \in ({TokJwtCarol, TokJwtExpired, TokJwtEmptySub})
        THEN AuthInfo(ClaimGet(decoded, "sub"),
                      IF Truthy(ClaimGet(decoded, "preferred_username"))
                      THEN ClaimGet(decoded, "preferred_username")
                      ELSE ClaimGet(decoded, "username"),
                      token, "jwt_bearer")
        ELSE AuthInfo(BearerUser(token), BearerUser(token), token, "bearer_token")

\* SessionManager._extract_service_account_auth
extract_service_account_auth(headers) ==
    LET service_account == headers.x_service_account
        service_token == headers.x_service_token
    IN  IF Truthy(service_account) /\ service_token \notin {NoneS, ""}
        THEN AuthInfo(service_account, service_account, service_token,
                      "service_account")
        ELSE NoAuth

\* SessionManager._extract_api_key_auth
extract_api_key_auth(headers) ==
    LET api_key == headers.x_api_key
        user_id == headers.x_user_id
        who == IF Truthy(user_id) THEN user_id ELSE ApiUser(api_key)
    IN  IF api_key \notin {NoneS, ""} THEN AuthInfo(who, who, api_key, "api_key")
        ELSE NoAuth

\* auth_extractors, in their order of preference.
AuthExtractors == <<"bearer", "service_account", "api_key">>
RunExtractor(name, headers) ==
    CASE name = "bearer" -> extract_bearer_token_auth(headers)
      [] name = "service_account" -> extract_service_account_auth(headers)
      [] name = "api_key" -> extract_api_key_auth(headers)

\* The loop of extract_auth_from_headers from the i-th extractor on.
RECURSIVE FirstAuthFrom(_, _)
FirstAuthFrom(i, headers) ==
    IF i > Len(AuthExtractors) THEN NoAuth
    ELSE LET auth_info == RunExtractor(AuthExtractors[i], headers)
         IN  IF ~auth_info.is_none THEN auth_info
             ELSE FirstAuthFrom(i + 1, headers)

\* Fault: the record of the first extractor is completed from the X-User-Id
\* header the API-key extractor reads.
extract_auth_merging(headers) ==
    LET a == FirstAuthFrom(1, headers)
    IN  IF ~a.is_none /\ Truthy(headers.x_user_id)
        THEN [a EXCEPT !.user_id = headers.x_user_id]
        ELSE a

\* SessionManager.extract_auth_from_headers
extract_auth_from_headers(headers) == FirstAuthFrom(1, headers)

\* The registry and the request scopes sessions are published in.
Scopes == {"r1", "r2"}
NoSession == [is_none |-> TRUE]

\* RequestTracer.__init__: no request is active.
NoTraces == [k \in {} |-> NoSession]
\* The worker threads tools run in, and a thread that is in no tracer call.
Workers == {"w1", "w2"}
IdleWorker == [at |-> "idle"]

(* ------------------------------ actions ------------------------------- *)
InitBase ==
    /\ now = 0
    /\ halted = FALSE
    /\ nuuid = 0
    /\ cache = EmptyCache
    /\ pc = [c \in Calls |-> "idle"]
    /\ req = [c \in Calls |-> NoReq]
    /\ assume_user = [c \in Calls |-> NONE]
    /\ outcome = [c \in Calls |-> ""]
    /\ ctx_state = [c \in Calls |-> NoRC]
    /\ observed = [c \in Calls |-> NoRC]
    /\ result = [c \in Calls |-> NoResult]
    /\ ghost = [c \in Calls |-> NoGhost]
    /\ th = [t \in Threads |-> IdleThread]
    /\ lock = Free
    /\ hist = NoHist
    /\ written = {}
    /\ rl = ([attempts |-> [i \in RateIdentities |-> 0], wstart |-> [i \in RateIdentities |-> 0],
                last |-> ([authorization |-> NoHeader, nth |-> 0, message |-> "", probes |-> 0,
                principal |-> NONE, raised |-> "-"])])
    /\ sessions = ([k \in {} |-> NoSession])
    /\ current_session = [r \in Scopes |-> NoSession]
    /\ active_requests = NoTraces
    /\ tr = [w \in Workers |-> IdleWorker]

InitCommon ==
    /\ InitBase
    /\ fin = ([kind |-> "-"])
    /\ fout = NoOutput

Init ==
    /\ auth_mode \in ({"none", "basic"})
    /\ InitCommon

\* on_request from its entry to the first point where it can be suspended (the
\* validator's probe) or to its end: a rejection, or the RequestContext
\* published and call_next about to run.
OnRequestBegin(c) ==
    /\ ~halted
    /\ pc[c] = "idle"
    /\ \E q \in ({[authorization |-> hm[1], x_assume_user |-> hm[2], tctx |-> Ctx(1,
                1)] : hm \in (({NoHeader} \X {NONE, Alice, (<<"b", "a", "d", " ", "n", "a", "m",
                "e", "!">>), <<>>, Rep("u", 30), Rep("u", 31)}) \cup {<<BearerCarol, Alice>>}
                            \cup ({BasicAlice, BasicAliceBad,
                (Hdr("Digest", TRUE, TokDigest)), (Hdr("Digest", TRUE, TokAlicePw))} \X {NONE}))}
                \cup {[authorization |-> NoHeader, x_assume_user |-> Alice, tctx |-> Ctx(1, 2)]}
                \cup {[authorization |-> hm[1], x_assume_user |-> hm[2],
                tctx |-> NoCtx] : hm \in {<<NoHeader, Alice>>, <<BasicAlice, NONE>>}}) :
        /\ ~q.tctx.has => nuuid < MaxUuid
        /\ LET t == q.tctx
               rid == RequestIdOf(t, <<"uuid", nuuid + 1>>)
               r == [authorization |-> q.authorization,
                     x_assume_user |-> q.x_assume_user, tctx |-> t,
                     request_id |-> rid, session_id |-> SessionIdOf(t, rid)]
               d == Begin(auth_mode, cache, now, r)
           IN  /\ nuuid' = IF t.has THEN nuuid ELSE nuuid + 1
               /\ req' = [req EXCEPT ![c] = r]
               /\ assume_user' = [assume_user EXCEPT ![c] = d.assume_user]
               /\ ghost' = [ghost EXCEPT ![c] =
                               [NoGhost EXCEPT !.gets = d.gets, !.src = d.src]]
               /\ IF d.next = "publish"
                  THEN /\ pc' = [pc EXCEPT ![c] = "downstream"]
                       /\ outcome' = [outcome EXCEPT ![c] = "passed"]
                       /\ ctx_state' = [ctx_state EXCEPT ![ContextOf(c)] =
                                           Published(r, d.assume_user)]
                  ELSE /\ pc' = [pc EXCEPT ![c] = d.next]
                       /\ outcome' = [outcome EXCEPT ![c] = d.message]
                       /\ UNCHANGED ctx_state
    /\ UNCHANGED <<tracevars, auth_mode, halted, now, cache, observed, result, stressvars, rl,
                libvars>>

\* on_request from the validator call to its end (lines 310-390): the probe,
\* the mapping of its outcome, the cache write and the publication.
Validated(c, v) ==
    LET r == req[c]
        message == RejectionFor(v)
        g == [ghost[c] EXCEPT !.validations = @ + 1, !.probes = @ + v.probes,
                              !.v = v]
    IN  /\ cache' = AfterValidation(cache, now, r, v)
        /\ IF message = ""
           THEN /\ assume_user' = [assume_user EXCEPT ![c] = v.principal]
                /\ ghost' = [ghost EXCEPT ![c] =
                                [g EXCEPT !.sets = @ + 1, !.src = "validator"]]
                /\ pc' = [pc EXCEPT ![c] = "downstream"]
                /\ outcome' = [outcome EXCEPT ![c] = "passed"]
                /\ ctx_state' = [ctx_state EXCEPT ![ContextOf(c)] =
                                    Published(r, v.principal)]
           ELSE /\ ghost' = [ghost EXCEPT ![c] = g]
                /\ pc' = [pc EXCEPT ![c] = "rejected"]
                /\ outcome' = [outcome EXCEPT ![c] = message]
                /\ UNCHANGED <<assume_user, ctx_state>>

OnRequestValidate(c) ==
    /\ ~halted
    /\ pc[c] = "validate"
    /\ \E net_ok \in BOOLEAN :
        Validated(c, validate_auth_header(req[c].authorization, net_ok))
    /\ UNCHANGED <<tracevars, envvars, now, req, observed, result, stressvars, rl, libvars>>

\* call_next: the tool runs and execute_db_tool reads the call's context state.
Downstream(c) ==
    /\ ~halted
    /\ pc[c] = "downstream"
    /\ \E lookup \in GetContext(req[c].tctx), set_ok \in BOOLEAN :
        LET request_context ==
                IF lookup = "context" THEN ctx_state[ContextOf(c)] ELSE NoRC
        IN  /\ observed' = [observed EXCEPT ![c] = request_context]
            /\ result' = [result EXCEPT ![c] =
                              execute_db_tool(lookup, request_context, set_ok)]
    /\ pc' = [pc EXCEPT ![c] = "done"]
    /\ UNCHANGED <<tracevars, envvars, now, cache, req, assume_user, outcome, ctx_state,
                   ghost, stressvars, rl, libvars>>

\* The call returns (its response or its rejection); the slot is free again.
Complete(c) ==
    /\ ~halted
    /\ pc[c] \in {"done", "rejected"}
    /\ pc' = [pc EXCEPT ![c] = "idle"]
    /\ req' = [req EXCEPT ![c] = NoReq]
    /\ assume_user' = [assume_user EXCEPT ![c] = NONE]
    /\ outcome' = [outcome EXCEPT ![c] = ""]
    /\ ctx_state' = [ctx_state EXCEPT ![c] = NoRC]
    /\ observed' = [observed EXCEPT ![c] = NoRC]
    /\ result' = [result EXCEPT ![c] = NoResult]
    /\ ghost' = [ghost EXCEPT ![c] = NoGhost]
    /\ UNCHANGED <<tracevars, envvars, now, cache, stressvars, rl, libvars>>

\* The clock moves on.
Tick ==
    /\ ~halted
    /\ now < MaxTime
    /\ now' = now + 1
    /\ cache' = CacheSweep(cache, now)
    /\ UNCHANGED <<tracevars, envvars, callvars, stressvars, rl, libvars>>

\* shutdown(): the cache is cleared and os._exit ends the process, and with it
\* every call in flight.
Shutdown ==
    /\ ~halted
    /\ halted' = TRUE
    /\ cache' = CacheClear(cache)
    /\ pc' = [c \in Calls |-> "idle"]
    /\ req' = [c \in Calls |-> NoReq]
    /\ assume_user' = [c \in Calls |-> NONE]
    /\ outcome' = [c \in Calls |-> ""]
    /\ ctx_state' = [c \in Calls |-> NoRC]
    /\ observed' = [c \in Calls |-> NoRC]
    /\ result' = [c \in Calls |-> NoResult]
    /\ ghost' = [c \in Calls |-> NoGhost]
    /\ UNCHANGED <<tracevars, auth_mode, nuuid, now, stressvars, rl, libvars>>

Next ==
    \/ \E c \in Calls : OnRequestBegin(c)
    \/ \E c \in Calls : OnRequestValidate(c)
    \/ \E c \in Calls : Downstream(c)
    \/ \E c \in Calls : Complete(c)
    \/ Tick
    \/ Shutdown

Spec == Init /\ [][Next]_vars

(* --------------------- properties of the middleware ------------------- *)
\* The key under which a call's principal is cached.
OwnKey(c) == <<req[c].session_id, AuthTokenSha256(req[c].authorization)>>
\* The principal a credential stands for at the backing system, presented
\* under either scheme the validator knows.
PrincipalOfToken(tok) ==
    LET basic == validate_auth_header(Hdr("Basic", TRUE, tok), TRUE).principal
        bearer == validate_auth_header(Hdr("Bearer", TRUE, tok), TRUE).principal
    IN  IF Truthy(basic) THEN basic ELSE bearer
\* The principal a call's own headers stand for: the impersonation header in
\* mode none, the principal of its credential in mode basic (the cache is
\* keyed by the credential's fingerprint, whatever scheme word precedes it).
OwnPrincipal(c) ==
    IF auth_mode = "none" THEN AssumeUserNone(req[c])
    ELSE PrincipalOfToken(HeaderToken(req[c].authorization))
PassedOn(c) == pc[c] \in {"downstream", "done"}

\* C1: in mode basic a call without Authorization header is rejected with
\* "Authentication required", with no cache lookup, no validator call and no
\* probe made for it, and it never reaches the downstream handler.
C1_MissingHeaderRejectedFirst ==
    \A c \in Calls :
        (auth_mode = "basic" /\ pc[c] # "idle" /\ ~req[c].authorization.present)
            => /\ pc[c] = "rejected"
               /\ outcome[c] = "Authentication required"
               /\ ghost[c].gets = 0
               /\ ghost[c].sets = 0
               /\ ghost[c].validations = 0
               /\ ghost[c].probes = 0
               /\ ctx_state[c] = NoRC
C1_Witness ==
    /\ auth_mode = "basic"
    /\ \E c \in Calls :
        /\ pc[c] = "rejected"
        /\ ~req[c].authorization.present
        /\ outcome[c] = "Authentication required"

\* C2 as stated: in mode basic every call passed downstream has a published
\* RequestContext whose assume_user/user_id is a non-empty principal, also when
\* the transport context is missing.
C2_AlwaysPublishedIdentity ==
    \A c \in Calls :
        (auth_mode = "basic" /\ PassedOn(c))
            => /\ ctx_state[c].stored
               /\ Truthy(ctx_state[c].assume_user)
               /\ ctx_state[c].user_id = ctx_state[c].assume_user

\* C2 amended: in mode basic every call passed downstream has resolved a
\* non-empty principal, taken from the cache or returned by the one validation
\* of its own header, and it is the principal of that header; with a transport
\* context the published RequestContext carries it as assume_user and user_id,
\* without one nothing is published and the call proceeds all the same.
C2_ResolvedIdentity ==
    \A c \in Calls :
        (auth_mode = "basic" /\ PassedOn(c))
            => /\ Truthy(assume_user[c])
               /\ assume_user[c] = OwnPrincipal(c)
               /\ \/ ghost[c].src = "cache" /\ ghost[c].validations = 0
                  \/ ghost[c].src = "validator" /\ ghost[c].validations = 1
               /\ IF req[c].tctx.has
                  THEN /\ ctx_state[c].stored
                       /\ ctx_state[c].assume_user = assume_user[c]
                       /\ ctx_state[c].user_id = assume_user[c]
                  ELSE ctx_state[c] = NoRC
C2_Witness ==
    /\ auth_mode = "basic"
    /\ \E c, d \in Calls :
        /\ pc[c] = "done" /\ ~req[c].tctx.has /\ ghost[c].src = "validator"
        /\ pc[d] = "done" /\ req[d].tctx.has /\ ghost[d].src = "cache"

\* C3: in mode none a call is never checked against the cache or the backing
\* system, whatever its Authorization header, and a call with X-Assume-User
\* alice resolves assume_user alice.
C3_NoneModeIsolation ==
    auth_mode = "none"
        => /\ cache = EmptyCache
           /\ \A c \in Calls :
                pc[c] # "idle"
                    => /\ ghost[c].gets = 0
                       /\ ghost[c].sets = 0
                       /\ ghost[c].validations = 0
                       /\ ghost[c].probes = 0
                       /\ req[c].x_assume_user = Alice => assume_user[c] = Alice
C3_Witness ==
    /\ auth_mode = "none"
    /\ \E c \in Calls :
        /\ pc[c] = "done"
        /\ req[c].authorization = BearerCarol
        /\ req[c].x_assume_user = Alice
        /\ observed[c].stored
        /\ observed[c].assume_user = Alice

\* C7: the RequestContext a call's downstream code reads is the one built from
\* that call's own headers and transport context, whatever other calls do in
\* between.
C7_CallScopedContext ==
    \A c \in Calls :
        /\ pc[c] = "downstream" => ctx_state[c] = Published(req[c], OwnPrincipal(c))
        /\ pc[c] = "done" => observed[c] = Published(req[c], OwnPrincipal(c))
C7_Witness ==
    /\ pc["c1"] = "done"
    /\ pc["c2"] = "done"
    /\ observed["c1"].stored
    /\ observed["c2"].stored
    /\ Truthy(observed["c1"].assume_user)
    /\ Truthy(observed["c2"].assume_user)
    /\ observed["c1"].assume_user # observed["c2"].assume_user
    /\ observed["c1"].session_id = observed["c2"].session_id

\* C8 as stated: no field of a published RequestContext, its headers map
\* included, holds the raw Authorization credential.
C8_NoRawCredential ==
    \A c \in Calls :
        ctx_state[c].stored
            => /\ ~ctx_state[c].headers.authorization.present
               /\ ctx_state[c].auth_token_sha256 \notin (Tokens \ {""})
               /\ ctx_state[c].auth_scheme \notin (Tokens \ {""})

\* C9: in mode basic a call takes its principal from the cache, without the
\* validator, only when the cache holds at that moment an unexpired entry under
\* the call's own (session id, credential fingerprint), and then it takes that
\* entry's principal; a call that finds no such entry goes to the validator or
\* is rejected.
C9_CacheHitOnlyOnOwnKey ==
    [][\A c \in Calls :
        (auth_mode = "basic" /\ pc[c] = "idle" /\ pc'[c] # "idle")
            => LET k == <<req'[c].session_id, AuthTokenSha256(req'[c].authorization)>>
                   live == k \in DOMAIN cache /\ now < cache[k].expires_at
               IN  /\ ghost'[c].src = "cache"
                        => /\ live
                           /\ assume_user'[c] = cache[k].principal
                           /\ ghost'[c].validations = 0
                   /\ pc'[c] = "downstream" => ghost'[c].src = "cache"
                   /\ (live /\ Truthy(cache[k].principal)) => pc'[c] = "downstream"]_vars
C9_Witness ==
    /\ auth_mode = "basic"
    /\ \E c, d \in Calls :
        /\ pc[c] = "validate"
        /\ req[c].authorization = BasicAliceBad
        /\ <<req[c].session_id, Sha256Hex(TokAlicePw)>> \in DOMAIN cache
        /\ now < cache[<<req[c].session_id, Sha256Hex(TokAlicePw)>>].expires_at
        /\ pc[d] = "downstream"
        /\ ghost[d].src = "cache"
        /\ req[d].session_id = req[c].session_id

\* C10: an entry of the cache is written only by a call whose validator run
\* returned a non-empty principal, under that call's own (session id,
\* credential fingerprint) and with that principal; a step that rejects a call
\* leaves the cache as it was.
C10_CacheWrittenOnlyOnSuccess ==
    [][/\ \A k \in DOMAIN cache' :
            (k \notin DOMAIN cache \/ cache'[k] # cache[k])
                => \E c \in Calls :
                    /\ pc[c] = "validate"
                    /\ pc'[c] = "downstream"
                    /\ k = OwnKey(c)
                    /\ Truthy(assume_user'[c])
                    /\ assume_user'[c] = OwnPrincipal(c)
                    /\ cache'[k].principal = assume_user'[c]
       /\ \A c \in Calls :
            (pc[c] # "rejected" /\ pc'[c] = "rejected") => cache' = cache]_vars
C10_Witness ==
    \E c, d \in Calls :
        /\ pc[c] = "downstream"
        /\ ghost[c].src = "validator"
        /\ OwnKey(c) \in DOMAIN cache
        /\ cache[OwnKey(c)].principal = assume_user[c]
        /\ pc[d] = "rejected"
        /\ outcome[d] = "Invalid credentials"

(* ------------------- the validator under repeated attempts ------------ *)
\* One call of TDConn.validate_auth_header, as the middleware makes it and
\* maps its outcome; the attempt is counted per identity and window so that
\* its rank inside the window is known.
RateAttempt(h, net_ok) ==
    LET i == AttemptIdentity(h)
        fresh == rl.attempts[i] = 0 \/ now >= rl.wstart[i] + RateLimitWindow
        nth == IF fresh THEN 1 ELSE rl.attempts[i] + 1
        v == validate_auth_header(h, net_ok)
    IN  /\ ~halted
        /\ nth <= RateLimitAttempts + 1
        /\ rl' = [attempts |-> [rl.attempts EXCEPT ![i] = nth],
                  wstart |-> [rl.wstart EXCEPT ![i] = IF fresh THEN now ELSE @],
                  last |-> [authorization |-> h, nth |-> nth,
                            message |-> RejectionFor(v), probes |-> v.probes,
                            principal |-> v.principal, raised |-> v.raised]]
        /\ UNCHANGED <<tracevars, envvars, now, cache, callvars, stressvars, libvars>>

InitRate ==
    /\ auth_mode = "basic"
    /\ InitCommon

NextRate ==
    \/ \E h \in RateInputs, net_ok \in BOOLEAN : RateAttempt(h, net_ok)
    \/ Tick

SpecRate == InitRate /\ [][NextRate]_vars

RateLimitMessage == "Too many authentication attempts. Please try again later."

\* C4 as stated: with a ceiling of RateLimitAttempts attempts per window, an
\* attempt beyond the ceiling for the same identity inside the window fails
\* with the rate-limit error before any probe is opened, valid credential or
\* not; the first attempt of a new window with a valid credential succeeds.
C4_RateLimitBeforeProbe ==
    /\ rl.last.nth > RateLimitAttempts
        => /\ rl.last.message = RateLimitMessage
           /\ rl.last.probes = 0
           /\ ~Truthy(rl.last.principal)
    /\ (rl.last.nth = 1 /\ rl.last.authorization = BasicAlice /\ rl.last.probes = 1
            /\ rl.last.message = "")
        => rl.last.principal = Alice

(* ----------------------- the cache under concurrency ------------------ *)
\* A thread enters get, set or clear.
CacheCall(t) ==
    /\ th[t].pc = "idle"
    /\ \/ \E k \in ({<<(<<"mcp", 1>>), Sha256Hex(TokAlicePw)>>, <<(<<"mcp", 1>>),
                Sha256Hex(TokJwtCarol)>>}) :
            th' = [th EXCEPT ![t] = [pc |-> "want", op |-> "get", sid |-> k[1],
                                     hash |-> k[2], principal |-> NONE,
                                     result |-> NONE]]
       \/ \E w \in ({<<(<<"mcp", 1>>), Sha256Hex(TokAlicePw), Alice>>, <<(<<"mcp", 1>>),
                   Sha256Hex(TokAlicePw), Carol>>, <<(<<"mcp", 1>>), Sha256Hex(TokJwtCarol),
                   Carol>>}) :
            th' = [th EXCEPT ![t] = [pc |-> "want", op |-> "set", sid |-> w[1],
                                     hash |-> w[2], principal |-> w[3],
                                     result |-> NONE]]
       \/ th' = [th EXCEPT ![t] = [IdleThread EXCEPT !.pc = "want", !.op = "clear"]]
    /\ UNCHANGED <<tracevars, envvars, now, cache, callvars, lock, hist, written, rl, libvars>>

\* The thread takes the cache's mutex.
CacheAcquire(t) ==
    /\ th[t].pc = "want"
    /\ lock = Free
    /\ lock' = t
    /\ th' = [th EXCEPT ![t].pc = "held"]
    /\ UNCHANGED <<tracevars, envvars, now, cache, callvars, hist, written, rl, libvars>>

\* The operation itself, inside the critical section, and the release.
CacheBody(t) ==
    LET me == th[t]
        k == <<me.sid, me.hash>>
    IN  /\ me.pc = "held"
        /\ lock = t
        /\ lock' = LockAfterRelease(t)
        /\ \/ /\ me.op = "get"
              /\ th' = [th EXCEPT ![t].pc = "returned",
                                  ![t].result = CacheGet(cache, now, me.sid, me.hash)]
              /\ cache' = CacheAfterGet(cache, now, me.sid, me.hash)
              /\ UNCHANGED <<hist, written>>
           \/ /\ me.op = "set"
              /\ th' = [th EXCEPT ![t].pc = "returned"]
              /\ cache' = CacheSet(cache, now, me.sid, me.principal, me.hash)
              /\ hist' = [x \in DOMAIN hist \cup {k} |->
                            IF x = k THEN [principal |-> me.principal, at |-> now]
                            ELSE hist[x]]
              /\ written' = written \cup {<<me.sid, me.hash, me.principal>>}
           \/ /\ me.op = "clear"
              /\ th' = [th EXCEPT ![t].pc = "returned"]
              /\ cache' = CacheClear(cache)
              /\ hist' = NoHist
              /\ UNCHANGED written
        /\ UNCHANGED <<tracevars, envvars, now, callvars, rl, libvars>>

\* The call returns to its caller.
CacheReturn(t) ==
    /\ th[t].pc = "returned"
    /\ th' = [th EXCEPT ![t] = IdleThread]
    /\ UNCHANGED <<tracevars, envvars, now, cache, callvars, lock, hist, written, rl, libvars>>

InitCache ==
    /\ auth_mode = "basic"
    /\ InitCommon

NextCache ==
    \/ \E t \in Threads : CacheCall(t)
    \/ \E t \in Threads : CacheAcquire(t)
    \/ \E t \in Threads : CacheBody(t)
    \/ \E t \in Threads : CacheReturn(t)
    \/ Tick

SpecCache == InitCache /\ [][NextCache]_vars

C6_NoTornReadNoDeadlock ==
    /\ \A t \in Threads :
        (th[t].pc = "returned" /\ th[t].op = "get")
            => \/ th[t].result = NONE
               \/ <<th[t].sid, th[t].hash, th[t].result>> \in written
    /\ lock # Free => th[lock].pc = "held"
    /\ (\E t \in Threads : th[t].pc \in {"want", "held"})
        => ENABLED (\E t \in Threads : CacheAcquire(t) \/ CacheBody(t))
C6_Witness ==
    \E t, u \in Threads :
        /\ th[t].pc = "returned"
        /\ th[t].op = "get"
        /\ Truthy(th[t].result)
        /\ th[u].pc = "held"
        /\ th[u].op = "set"
        /\ <<th[u].sid, th[u].hash>> = <<th[t].sid, th[t].hash>>
        /\ th[u].principal # th[t].result
        /\ Cardinality(written) = 3

(* ----------------------- claims C11 and following --------------------- *)
UnsupportedMessage == "Unsupported auth scheme for basic mode"
HasUnsupportedScheme(c) ==
    /\ auth_mode = "basic"
    /\ pc[c] # "idle"
    /\ req[c].authorization.present
    /\ Lower(req[c].authorization.scheme) \notin {"basic", "bearer"}

\* C11 as stated: in mode basic every call whose Authorization scheme is
\* neither basic nor bearer is rejected, with no probe attempted for it.
C11_UnsupportedAlwaysRejected ==
    \A c \in Calls :
        HasUnsupportedScheme(c)
            => /\ pc[c] = "rejected"
               /\ ghost[c].probes = 0

\* C11 amended: in mode basic no validator call and no probe is made for a
\* call whose Authorization scheme is neither basic nor bearer; the call is
\* rejected as unsupported unless the cache holds an unexpired entry under its
\* (session id, credential fingerprint), in which case it passes with that
\* entry's principal.
C11_UnsupportedRejectedUnlessCached ==
    \A c \in Calls :
        HasUnsupportedScheme(c)
            => /\ ghost[c].validations = 0
               /\ ghost[c].probes = 0
               /\ ghost[c].sets = 0
               /\ \/ pc[c] = "rejected" /\ outcome[c] = UnsupportedMessage
                  \/ /\ PassedOn(c)
                     /\ ghost[c].src = "cache"
                     /\ assume_user[c] = OwnPrincipal(c)
C11_Witness ==
    \E c, d \in Calls :
        /\ HasUnsupportedScheme(c)
        /\ pc[c] = "rejected"
        /\ outcome[c] = UnsupportedMessage
        /\ HasUnsupportedScheme(d)
        /\ pc[d] = "downstream"
        /\ ghost[d].src = "cache"

(* ------------- the middleware against any validator outcome ----------- *)
\* What a call of validate_auth_header can end in, seen from its caller: a
\* principal, "" or None returned, or an exception of one of four kinds.
Raised(kind) == [principal |-> NONE, raised |-> kind, probes |-> 0]

\* on_request from the validator call to its end, the validator ending in any
\* of these ways.
OnRequestValidateAny(c) ==
    /\ ~halted
    /\ pc[c] = "validate"
    /\ \E v \in ({Returned(p, 1) : p \in {Alice, Carol, <<>>, NONE}}
                \cup {Raised(k) : k \in {"RateLimitExceededError", "InvalidUsernameError",
                "InvalidTokenFormatError", "Exception"}}) : Validated(c, v)
    /\ UNCHANGED <<tracevars, envvars, now, req, observed, result, stressvars, rl, libvars>>

InitOutcome ==
    /\ auth_mode = "basic"
    /\ InitCommon

NextOutcome ==
    \/ \E c \in Calls : OnRequestBegin(c)
    \/ \E c \in Calls : OnRequestValidateAny(c)
    \/ \E c \in Calls : Downstream(c)
    \/ \E c \in Calls : Complete(c)

SpecOutcome == InitOutcome /\ [][NextOutcome]_vars

\* C12: in mode basic a validator outcome other than a non-empty principal
\* ends the call in one rejection and never downstream: the rate-limit error
\* in "Too many authentication attempts...", a malformed-credential error in
\* "Invalid authentication format", any other exception and a None or empty
\* result in "Invalid credentials"; a non-empty principal passes the call.
C12_ValidatorFailureRejects ==
    \A c \in Calls :
        ghost[c].validations > 0
            => LET v == ghost[c].v
               IN  /\ ghost[c].validations = 1
                   /\ IF v.raised = "none" /\ Truthy(v.principal)
                      THEN PassedOn(c) /\ assume_user[c] = v.principal
                      ELSE /\ pc[c] = "rejected"
                           /\ ctx_state[c] = NoRC
                           /\ ghost[c].sets = 0
                           /\ outcome[c] =
                                CASE v.raised = "RateLimitExceededError" ->
                                        RateLimitMessage
                                  [] v.raised \in {"InvalidUsernameError",
                                                   "InvalidTokenFormatError"} ->
                                        "Invalid authentication format"
                                  [] OTHER -> "Invalid credentials"
C12_Witness ==
    \E c, d \in Calls :
        /\ pc[c] = "rejected"
        /\ ghost[c].v.raised = "RateLimitExceededError"
        /\ outcome[c] = RateLimitMessage
        /\ pc[d] = "rejected"
        /\ ghost[d].v.raised = "Exception"
        /\ outcome[d] = "Invalid credentials"

\* C13 as stated: validate_auth_header, given a Basic header whose payload is
\* not decodable, has no colon, or has an empty user or secret, raises a
\* malformed-credential error, and opens no probe.
C13_MalformedBasicRaises ==
    rl.last.authorization \in MalformedBasic
        => /\ rl.last.raised \in {"InvalidUsernameError", "InvalidTokenFormatError"}
           /\ rl.last.message = "Invalid authentication format"
           /\ rl.last.probes = 0

\* C14 as stated: when the query execution path finds no request context (no
\* context object, or no "request_context" state in it), execute_db_tool still
\* runs the tool, with an audit string that has no identity field.
C14_NoContextStillExecutes ==
    \A c \in Calls :
        (pc[c] = "done" /\ ~observed[c].stored)
            => /\ result[c].status = "executed"
               /\ QbKeys(result[c].queryband) \cap IdentityKeys = {}
               /\ QbKeys(result[c].queryband) # {}

(* ------------------------- the extractor chain ------------------------ *)
\* extract_auth_from_headers(fin) is called.
ExtractAuth ==
    /\ ~fout.done
    /\ fout' = [done |-> TRUE, auth_info |-> extract_auth_from_headers(fin)]
    /\ UNCHANGED <<tracevars, envvars, now, cache, callvars, stressvars, rl, fin, sessions,
                   current_session>>

InitExtract ==
    /\ auth_mode = "none"
    /\ InitBase
    /\ fin \in ({SessionHeaders(a, acc, st, k, u, sid) : a \in {NoHeader, BearerCarol,
                (Hdr("Bearer", TRUE, TokJwtExpired)), Hdr("Bearer", TRUE, TokJwtEmptySub),
                Hdr("Bearer", TRUE, TokDigest), Hdr("Bearer", TRUE, ""), Hdr("bearer", TRUE,
                TokJwtCarol), BasicAlice}, acc \in {NONE, <<>>, Svc}, st \in {NoneS, "", "st-1"},
                k \in {NoneS, "", "key-1"}, u \in {NONE, <<>>, Alice}, sid \in {NONE}})
    /\ fout = NoOutput

NextExtract == ExtractAuth

SpecExtract == InitExtract /\ [][NextExtract]_vars

\* C15: extract_auth_from_headers returns the record of the bearer extractor
\* when it yields one, else that of the service-account extractor, else that
\* of the API-key extractor, each as that extractor made it; it returns None
\* exactly when none of the three yields a record.
C15_FirstExtractorWins ==
    fout.done
        => LET b == extract_bearer_token_auth(fin)
               sa == extract_service_account_auth(fin)
               k == extract_api_key_auth(fin)
               got == fout.auth_info
           IN  /\ ~b.is_none => got = b
               /\ (b.is_none /\ ~sa.is_none) => got = sa
               /\ (b.is_none /\ sa.is_none) => got = k
               /\ got.is_none <=> (b.is_none /\ sa.is_none /\ k.is_none)
C15_Witness ==
    /\ fout.done
    /\ ~extract_bearer_token_auth(fin).is_none
    /\ ~extract_service_account_auth(fin).is_none
    /\ ~extract_api_key_auth(fin).is_none
    /\ fin.x_user_id = Alice
    /\ fout.auth_info.auth_type = "jwt_bearer"
    /\ fout.auth_info.user_id = <<"u", "7">>

(* --------------------------- the session registry --------------------- *)
\* UserSession(...), as create_session_from_headers fills it.
UserSession(session_id, auth_info, client_ip, t) ==
    [is_none |-> FALSE,
     session_id |-> session_id,
     user_id |-> IF auth_info.is_none THEN NONE ELSE auth_info.user_id,
     username |-> IF auth_info.is_none THEN NONE ELSE auth_info.username,
     auth_token |-> IF auth_info.is_none THEN NoneS ELSE auth_info.token,
     auth_type |-> IF auth_info.is_none THEN NoneS ELSE auth_info.auth_type,
     client_ip |-> client_ip,
     created_at |-> t,
     last_activity |-> t]

\* UserSession.is_authenticated
is_authenticated(session) ==
    session.user_id # NONE /\ session.auth_token # NoneS

\* The header maps sessions are created from: no credential, a JWT, a JWT
\* with an empty subject, "Bearer " with nothing after it, a service account,
\* an API key with a user id; each with and without X-Session-Id.
Sid1 == <<"s", "1">>
Ip1 == <<"1", "0", ".", "0", ".", "0", ".", "1">>

\* SessionManager.create_session_from_headers(headers, client_ip), called in
\* request scope r.
CreateSession(r, headers, client_ip) ==
    LET fresh == ~Truthy(headers.x_session_id)
        session_id == IF fresh THEN IdText(<<"uuid", nuuid + 1>>)
                      ELSE headers.x_session_id
        auth_info == extract_auth_from_headers(headers)
        session == UserSession(session_id, auth_info, client_ip, now)
    IN  /\ fresh => nuuid < MaxUuid
        /\ nuuid' = IF fresh THEN nuuid + 1 ELSE nuuid
        /\ sessions' = [k \in DOMAIN sessions \cup {session_id} |->
                          IF k = session_id THEN session ELSE sessions[k]]
        /\ current_session' = [current_session EXCEPT ![r] = session]
        /\ UNCHANGED <<tracevars, auth_mode, halted, now, cache, callvars, stressvars, rl,
                       fin, fout>>

InitSession ==
    /\ auth_mode = "none"
    /\ InitCommon

NextSession ==
    \E r \in Scopes, headers \in ({SessionHeaders(x[1], x[2], x[3], x[4], x[5],
                sid) : x \in {<<NoHeader, NONE, NoneS, NoneS, NONE>>, <<BearerCarol, NONE, NoneS,
                NoneS, NONE>>, <<Hdr("Bearer", TRUE, TokJwtEmptySub), NONE, NoneS, NoneS, NONE>>,
                <<Hdr("Bearer", TRUE, ""), NONE, NoneS, NoneS, NONE>>, <<NoHeader, Svc, "st-1",
                NoneS, NONE>>, <<NoHeader, NONE, NoneS, "key-1", Alice>>}, sid \in {NONE, Sid1}}) :
        CreateSession(r, headers, IF Truthy(headers.x_session_id) THEN Ip1 ELSE NONE)

SpecSession == InitSession /\ [][NextSession]_vars

\* C16 as stated: for every session of the registry and every current session,
\* is_authenticated() is true if and only if user_id and auth_token are both
\* non-empty.
C16_AuthenticatedIffNonEmpty ==
    \A x \in {sessions[k] : k \in DOMAIN sessions}
            \cup {current_session[r] : r \in {q \in Scopes : ~current_session[q].is_none}} :
        is_authenticated(x)
            <=> (Truthy(x.user_id) /\ x.auth_token \notin {NoneS, ""})

(* -------------------------- auth/queryband.py ------------------------- *)
\* The literal words of queryband.py, as text.
Word(w) ==
    CASE w = "APPLICATION" -> <<"A", "P", "P", "L", "I", "C", "A", "T", "I", "O", "N">>
      [] w = "REQUEST_ID" -> <<"R", "E", "Q", "U", "E", "S", "T", "_", "I", "D">>
      [] w = "TIMESTAMP" -> <<"T", "I", "M", "E", "S", "T", "A", "M", "P">>
      [] w = "USER_ID" -> <<"U", "S", "E", "R", "_", "I", "D">>
      [] w = "USERNAME" -> <<"U", "S", "E", "R", "N", "A", "M", "E">>
      [] w = "SESSION_ID" -> <<"S", "E", "S", "S", "I", "O", "N", "_", "I", "D">>
      [] w = "CLIENT_IP" -> <<"C", "L", "I", "E", "N", "T", "_", "I", "P">>
      [] w = "AUTH_TYPE" -> <<"A", "U", "T", "H", "_", "T", "Y", "P", "E">>
      [] w = "TOOL_NAME" -> <<"T", "O", "O", "L", "_", "N", "A", "M", "E">>
      [] w = "teradata-mcp-server" -> <<"t", "e", "r", "a", "d", "a", "t", "a", "-", "m", "c", "p",
                  "-", "s", "e", "r", "v", "e", "r">>
      [] w = "anonymous" -> <<"a", "n", "o", "n", "y", "m", "o", "u", "s">>
      [] w = "none" -> <<"n", "o", "n", "e">>
      [] w = "unknown" -> <<"u", "n", "k", "n", "o", "w", "n">>
      [] w = "jwt_bearer" -> <<"j", "w", "t", "_", "b", "e", "a", "r", "e", "r">>
      [] w = "service_account" -> <<"s", "e", "r", "v", "i", "c", "e", "_", "a", "c", "c", "o", "u",
                  "n", "t">>

LowerLetters == <<"a", "b", "c", "d", "e", "f", "g", "h", "i", "j", "k", "l", "m", "n", "o", "p",
            "q", "r", "s", "t", "u", "v", "w", "x", "y", "z">>
UpperLetters == <<"A", "B", "C", "D", "E", "F", "G", "H", "I", "J", "K", "L", "M", "N", "O", "P",
            "Q", "R", "S", "T", "U", "V", "W", "X", "Y", "Z">>
Digits == <<"0", "1", "2", "3", "4", "5", "6", "7", "8", "9">>
Range(f) == {f[i] : i \in DOMAIN f}
\* str.isalnum() of one character: letters and digits, those beyond ASCII
\* included ("é" stands for them).
IsAlnum(ch) == ch \in Range(LowerLetters) \cup Range(UpperLetters) \cup Range(Digits) \cup {"é",
            "É"}
\* str.upper(), character by character.
Upper(s) ==
    [i \in 1..Len(s) |->
        IF s[i] \in Range(LowerLetters)
        THEN UpperLetters[CHOOSE k \in 1..26 : LowerLetters[k] = s[i]]
        ELSE IF s[i] = "é" THEN "É" ELSE s[i]]

\* QueryBandBuilder._sanitize_value
sanitize_value(value) ==
    IF ~Truthy(value) THEN Word("unknown")
    ELSE [i \in 1..Len(value) |->
            IF IsAlnum(value[i]) \/ value[i] \in {"_", "-"} THEN value[i] ELSE "_"]

\* The loop over additional_context.items(): pairs are appended until the
\* list holds 20.
RECURSIVE AddContext(_, _)
AddContext(bands, items) ==
    IF items = <<>> \/ Len(bands) >= 20 THEN bands
    ELSE AddContext(
            Append(bands, <<Prefix(Upper(sanitize_value(Head(items)[1])), 32),
                            Prefix(sanitize_value(Head(items)[2]), 64)>>),
            Tail(items))

\* appended to bands when cond holds
BandIf(bands, cond, key, value) ==
    IF cond THEN Append(bands, <<Word(key), value>>) ELSE bands

\* Fault: the authentication type is written ahead of the other session pairs.
SessionBands_AuthFirst(bands, ses) ==
    IF ses.is_none
    THEN bands \o <<<<Word("AUTH_TYPE"), Word("none")>>,
                    <<Word("USER_ID"), Word("anonymous")>>>>
    ELSE
    LET b1 == BandIf(bands, Truthy(ses.auth_type), "AUTH_TYPE",
                     Prefix(sanitize_value(ses.auth_type), 32))
        b2 == BandIf(b1, Truthy(ses.user_id), "USER_ID",
                     Prefix(sanitize_value(ses.user_id), 64))
        b3 == BandIf(b2, Truthy(ses.username) /\ ses.username # ses.user_id,
                     "USERNAME", Prefix(sanitize_value(ses.username), 64))
        b4 == BandIf(b3, Truthy(ses.session_id), "SESSION_ID",
                     Prefix(sanitize_value(ses.session_id), 16))
    IN  BandIf(b4, Truthy(ses.client_ip), "CLIENT_IP", ses.client_ip)

\* Lines 46-69 of build_queryband: the pairs of the session, or the anonymous
\* marker when there is none.
SessionBands(bands, ses) ==
    IF ses.is_none
    THEN bands \o <<<<Word("USER_ID"), Word("anonymous")>>,
                    <<Word("AUTH_TYPE"), Word("none")>>>>
    ELSE
    LET b1 == BandIf(bands, Truthy(ses.user_id), "USER_ID",
                     Prefix(sanitize_value(ses.user_id), 64))
        b2 == BandIf(b1, Truthy(ses.username) /\ ses.username # ses.user_id,
                     "USERNAME", Prefix(sanitize_value(ses.username), 64))
        b3 == BandIf(b2, Truthy(ses.session_id), "SESSION_ID",
                     Prefix(sanitize_value(ses.session_id), 16))
        b4 == BandIf(b3, Truthy(ses.client_ip), "CLIENT_IP", ses.client_ip)
    IN  BandIf(b4, Truthy(ses.auth_type), "AUTH_TYPE",
               Prefix(sanitize_value(ses.auth_type), 32))

\* QueryBandBuilder.build_queryband(session, tool_name, additional_context),
\* with current_session.get() = current: the bands, each a (key, value) pair
\* that is written "key=value".
build_queryband(session, tool_name, additional_context, current) ==
    LET ses == IF session.is_none THEN current ELSE session
        b0 == <<<<Word("APPLICATION"), Word("teradata-mcp-server")>>,
                <<Word("REQUEST_ID"), (<<"3", "f", "a", "9", "0", "c", "1", "e">>)>>,
                <<Word("TIMESTAMP"), (<<"2", "0", "2", "5", "0", "8", "0", "9", "_", "1", "2", "0",
                            "0", "0", "0">>)>>>>
        b5 == SessionBands(b0, ses)
        b6 == BandIf(b5, Truthy(tool_name), "TOOL_NAME",
                     Prefix(sanitize_value(tool_name), 64))
    IN  AddContext(b6, additional_context)

\* sep.join(items)
RECURSIVE Join(_, _)
Join(sep, items) ==
    IF items = <<>> THEN <<>>
    ELSE IF Len(items) = 1 THEN Head(items)
    ELSE Head(items) \o sep \o Join(sep, Tail(items))
\* f"{key}={value}" of each band, then ";".join(bands) + ";"
queryband_string(bands) ==
    Join(<<";">>, [i \in 1..Len(bands) |-> bands[i][1] \o <<"=">> \o bands[i][2]])
        \o <<";">>

(* ------------------------- the audit functions ------------------------ *)
MaxExtra == 19
LongLen == 70
\* A session as the builder reads it, its fields text or None.
QbSession(user_id, username, session_id, client_ip, auth_type) ==
    [is_none |-> FALSE, user_id |-> user_id, username |-> username,
     session_id |-> session_id, client_ip |-> client_ip, auth_type |-> auth_type]
\* additional_context: n pairs with keys k1, k2, ... in insertion order.
Extras(n, value) ==
    [i \in 1..n |-> <<<<"k", Digits[(i \div 10) + 1], Digits[(i % 10) + 1]>>, value>>]

\* build_queryband is called with the arguments drawn.
BuildQueryband ==
    /\ fin.kind = "queryband"
    /\ ~fout.done
    /\ LET bands == build_queryband(fin.session, fin.tool_name,
                                    fin.additional_context, fin.current)
       IN  fout' = [done |-> TRUE, bands |-> bands,
                    queryband |-> queryband_string(bands)]
    /\ UNCHANGED <<tracevars, envvars, now, cache, callvars, stressvars, rl, fin, sessions,
                   current_session>>

\* A RequestContext as the builder reads it: every field text or None.
RcFields(rid, ten, fwd, ua, sch, hash, au) ==
    [is_none |-> FALSE, request_id |-> rid, session_id |-> Sid1,
     tenant |-> ten, forwarded_for |-> fwd, user_agent |-> ua,
     auth_scheme |-> sch, auth_token_sha256 |-> hash, assume_user |-> au]

\* _build_queryband_with_context is called with the arguments drawn.
BuildContextQueryband ==
    /\ fin.kind = "context"
    /\ ~fout.done
    /\ fout' = [done |-> TRUE,
                parts |-> build_queryband_with_context(fin.tool_name,
                                                       fin.request_context)]
    /\ UNCHANGED <<tracevars, envvars, now, cache, callvars, stressvars, rl, fin, sessions,
                   current_session>>

MaxValueLen == 3
RECURSIVE TextsUpTo(_)
TextsUpTo(n) ==
    IF n = 0 THEN {<<>>}
    ELSE LET shorter == TextsUpTo(n - 1)
         IN  shorter \cup {Append(t, ch) : t \in shorter, ch \in ({"a", "Z", "0", "_", "-", ";",
                     "'", " ", "=", "é"})}

\* Each sanitizer is applied to the value drawn, then to its own output.
Sanitize ==
    /\ fin.kind = "sanitize"
    /\ ~fout.done
    /\ fout' = [done |-> TRUE,
                once |-> sanitize_value(fin.value),
                twice |-> sanitize_value(sanitize_value(fin.value)),
                qb_once |-> sanitize_qb_value(fin.value),
                qb_twice |-> sanitize_qb_value(sanitize_qb_value(fin.value))]
    /\ UNCHANGED <<tracevars, envvars, now, cache, callvars, stressvars, rl, fin, sessions,
                   current_session>>

\* SessionManager.cleanup_expired_sessions(max_age_hours) at the time utcnow,
\* times counted in hours: datetime.replace(hour=...) raises ValueError for an
\* hour outside 0..23, before anything is removed.
cleanup_expired_sessions(registry, utcnow, max_age_hours) ==
    LET hour == (utcnow % 24) - max_age_hours
        cutoff == (utcnow - (utcnow % 24)) + hour
    IN  IF hour \notin 0..23 THEN [sessions |-> registry, raised |-> "ValueError"]
        ELSE [sessions |-> [k \in {x \in DOMAIN registry : ~(registry[x].last_activity < cutoff)}
                              |-> registry[k]],
              raised |-> "-"]

\* cleanup_expired_sessions is called on the registry drawn.
Cleanup ==
    /\ fin.kind = "cleanup"
    /\ ~fout.done
    /\ fout' = [done |-> TRUE,
                cleaned |-> cleanup_expired_sessions(fin.sessions, fin.utcnow,
                                                     fin.max_age_hours)]
    /\ UNCHANGED <<tracevars, envvars, now, cache, callvars, stressvars, rl, fin, sessions,
                   current_session>>

\* The Bearer branch of validate_auth_header after a probe that succeeded
\* (td_connect.py:119-125), with USERMAP_STRATEGY set to the strategy drawn.
MapPrincipal ==
    /\ fin.kind = "principal"
    /\ ~fout.done
    /\ fout' = [done |-> TRUE,
                principal |-> map_principal_from_claims(fin.claims, fin.strategy, NONE)]
    /\ UNCHANGED <<tracevars, envvars, now, cache, callvars, stressvars, rl, fin, sessions,
                   current_session>>

\* _quick_password_validation and _quick_jwt_validation (the same statements
\* with another URL): what happens to the engine and the connection of the
\* probe when it ends by path; the with block closes a connection that was
\* opened, engine.dispose() is the statement after the with block.
probe_events(path) ==
    CASE path = "connect_failed" -> <<"create_engine", "return_false">>
      [] path \in {"query_failed", "timeout"} ->
            <<"create_engine", "connect", "close", "return_false">>
      [] OTHER -> <<"create_engine", "connect", "select_1", "close", "dispose", "return_true">>

\* The validator probes a credential and the probe ends by the path drawn.
Probe ==
    /\ fin.kind = "probe"
    /\ ~fout.done
    /\ fout' = [done |-> TRUE, events |-> probe_events(fin.path)]
    /\ UNCHANGED <<tracevars, envvars, now, cache, callvars, stressvars, rl, fin, sessions,
                   current_session>>

InitAudit ==
    /\ auth_mode = "none"
    /\ InitBase
    /\ fin \in
        {[kind |-> "queryband", session |-> ses, tool_name |-> tn,
          additional_context |-> ex, current |-> cur] :
            ses \in {NoSession,
                     QbSession(Alice, Alice, Sid1, Ip1, Word("jwt_bearer")),
                     QbSession(Alice, Carol, Rep("s", LongLen), Ip1, Word("service_account")),
                     QbSession(Rep("u", LongLen), Rep("n", LongLen), Sid1, NONE,
                               Rep("t", LongLen)),
                     QbSession(NONE, NONE, Sid1, NONE, NONE),
                     QbSession(<<"a", ";", "b">>, <<"c", "'", "d">>, <<"s", " ", "1">>,
                               <<"1", ";", "X", "=", "2">>, Word("none")),
                     QbSession(Alice, NONE, Sid1, Rep("9", LongLen), Word("none"))},
            tn \in {NONE, ToolName, Rep("t", LongLen), <<"a", ";", "b">>},
            ex \in {Extras(n, <<"v">>) : n \in {0, 1, 11, MaxExtra}}
                     \cup {Extras(2, Rep("w", LongLen)),
                           <<<<Rep("k", LongLen), <<"a", ";", "b">>>>, <<<<>>, <<>>>>>>},
            cur \in {NoSession, QbSession(Carol, Carol, Sid1, NONE, Word("none"))}}
        \cup
        {[kind |-> "context", tool_name |-> tn, request_context |-> rc] :
            tn \in {NONE, ToolName, <<"a", ";", "b">>},
            rc \in {NoRequestContext}
                     \cup {RcFields(rid, ten, fwd, ua, sch, Chars(Sha256Hex(TokAlicePw)), au) :
                            rid \in {NONE, <<"r", "1">>},
                            ten \in {NONE, <<"t", "1">>, <<"o", "'", "b">>},
                            fwd \in {NONE, <<>>, Ip1 \o <<",", " ">> \o Ip1, <<"1", ";", "2">>},
                            ua \in {NONE, <<"c", "u", "r", "l">>,
                                    <<"c", "u", "r", "l", "/", "8", " ", "x">>,
                                    <<"a", ";", "K", "=", "v">>},
                            sch \in {NONE, Chars("Basic")},
                            au \in {NONE, Carol}}}
        \cup
        {[kind |-> "sanitize", value |-> v] : v \in TextsUpTo(MaxValueLen) \cup {NONE}}
        \cup
        {[kind |-> "principal", strategy |-> st, claims |-> cl] :
            st \in {<<"claim", "preferred_username">>, <<"claim", "sub">>, <<"claim", "email">>,
                    <<"transform", "sam">>, <<"transform", "upper">>, <<"username">>,
                    <<"other">>},
            cl \in {extract_unverified_jwt_claims(TokJwtCarol),
                    extract_unverified_jwt_claims(TokJwtEmptySub),
                    extract_unverified_jwt_claims(TokAlicePw),
                    [n \in {"upn", "sub"} |->
                        IF n = "upn" THEN Carol \o <<"@", "c", "o">> ELSE <<"u", "7">>],
                    [n \in {"preferred_username", "upn", "sub"} |->
                        IF n = "sub" THEN <<"C", "O", "\\">> \o Carol \o <<"@", "x">> ELSE <<>>],
                    [n \in {"sub", "email"} |->
                        IF n = "sub" THEN <<"@", "c", "o">> ELSE <<"c", "@", "x">>]}}
        \cup
        {[kind |-> "probe", scheme |-> sch, path |-> path] :
            sch \in {"basic", "bearer"},
            path \in {"ok", "connect_failed", "query_failed", "timeout"}}
        \cup
        {[kind |-> "cleanup", utcnow |-> 48 + h, max_age_hours |-> age,
          sessions |-> [k \in ids |->
                          UserSession(<<k>>, NoAuth, NONE,
                                      48 + h - (IF k = "s1" THEN old ELSE 0))]] :
            h \in {0, 5, 23}, age \in {1, 5, 24}, old \in {0, 1, 2, 6, 30},
            ids \in {{}, {"s1"}, {"s1", "s2"}}}
    /\ fout = NoOutput

NextAudit ==
    \/ BuildQueryband
    \/ BuildContextQueryband
    \/ Sanitize
    \/ Cleanup
    \/ MapPrincipal
    \/ Probe

SpecAudit == InitAudit /\ [][NextAudit]_vars

\* C17 as stated: whatever the session, tool name and extra pairs, the string
\* build_queryband returns has at most 20 pairs, every key of at most 32
\* characters, every value of at most 64 characters and without ';'.
C17_QuerybandBounded ==
    (fin.kind = "queryband" /\ fout.done)
        => /\ Len(fout.bands) <= 20
           /\ \A i \in 1..Len(fout.bands) :
                /\ Len(fout.bands[i][1]) <= 32
                /\ Len(fout.bands[i][2]) <= 64
                /\ ";" \notin Range(fout.bands[i][2])

\* The characters A-Z, a-z, 0-9, underscore and dash.
PlainChar(ch) ==
    ch \in Range(LowerLetters) \cup Range(UpperLetters) \cup Range(Digits) \cup {"_", "-"}
PlainText(s) == \A i \in 1..Len(s) : PlainChar(s[i])

\* C18 as stated: whatever the request context and the tool name, every value
\* of the audit string _build_queryband_with_context returns is made of
\* letters, digits, underscore and dash only, so that ';' occurs only as the
\* terminator of a pair.
C18_AuditValuesPlain ==
    (fin.kind = "context" /\ fout.done)
        => \A i \in 1..Len(fout.parts) : PlainText(fout.parts[i][2])

\* C19 as stated: _sanitize_value applied twice gives what it gives applied
\* once, and its output is made of A-Z, a-z, 0-9, underscore and dash only;
\* _sanitize_qb_value applied twice gives what it gives applied once.
C19_SanitizersIdempotent ==
    (fin.kind = "sanitize" /\ fout.done)
        => /\ fout.twice = fout.once
           /\ PlainText(fout.once)
           /\ fout.qb_twice = fout.qb_once

\* The session build_queryband works on: the one passed, else the current one.
QbEffective == IF fin.session.is_none THEN fin.current ELSE fin.session
\* The keys build_queryband writes itself, in the order of the claim.
FixedOrder ==
    <<Word("APPLICATION"), Word("REQUEST_ID"), Word("TIMESTAMP"), Word("USER_ID"),
      Word("USERNAME"), Word("SESSION_ID"), Word("CLIENT_IP"), Word("AUTH_TYPE"),
      Word("TOOL_NAME")>>
OrderIndex(key) == CHOOSE i \in 1..Len(FixedOrder) : FixedOrder[i] = key
\* The pairs emitted whose key is key.
BandsOf(key) == {i \in 1..Len(fout.bands) : fout.bands[i][1] = key}
\* How many of the pairs are the builder's own: the extra pairs follow them.
FixedCount == Cardinality({i \in 1..Len(fout.bands) : fout.bands[i][1] \in Range(FixedOrder)})
\* The text of the pairs, each followed by one ';'.
RECURSIVE Terminated(_)
Terminated(bands) ==
    IF bands = <<>> THEN <<>>
    ELSE Head(bands)[1] \o <<"=">> \o Head(bands)[2] \o <<";">> \o Terminated(Tail(bands))

TruncateOver == 1000
TruncateTo == 100

\* str.lower(), character by character.
LowerText(s) ==
    [i \in 1..Len(s) |->
        IF s[i] \in Range(UpperLetters)
        THEN LowerLetters[CHOOSE k \in 1..26 : UpperLetters[k] = s[i]]
        ELSE s[i]]
\* sub in s
Contains(s, sub) ==
    \E i \in 0..(Len(s) - Len(sub)) : SubSeq(s, i + 1, i + Len(sub)) = sub
SensitiveKeys ==
    {<<"p", "a", "s", "s", "w", "o", "r", "d">>, <<"t", "o", "k", "e", "n">>, <<"s", "e", "c", "r",
                "e", "t">>,
     <<"k", "e", "y">>, <<"a", "u", "t", "h">>, <<"c", "r", "e", "d", "e", "n", "t", "i", "a",
                 "l">>}
RedactedMarker == <<"[", "R", "E", "D", "A", "C", "T", "E", "D", "]">>
TruncatedMarker == <<".", ".", ".", "[", "T", "R", "U", "N", "C", "A", "T", "E", "D", "]">>
\* A parameter value: a string (its text) or something else (a list, its items).
StrValue(text) == [is_str |-> TRUE, v |-> text]
ListValue(items) == [is_str |-> FALSE, v |-> items]

\* Fault: the keys are compared as they are written.
redact_CaseSensitive(data) ==
    [i \in 1..Len(data) |->
        IF \E sensitive \in SensitiveKeys : Contains(data[i][1], sensitive)
        THEN <<data[i][1], StrValue(RedactedMarker)>>
        ELSE IF data[i][2].is_str /\ Len(data[i][2].v) > TruncateOver
        THEN <<data[i][1], StrValue(Prefix(data[i][2].v, TruncateTo) \o TruncatedMarker)>>
        ELSE data[i]]

\* RequestTracer._redact_sensitive_data: data is the dict as its (key, value)
\* pairs in insertion order.
redact_sensitive_data(data) ==
    [i \in 1..Len(data) |->
        IF \E sensitive \in SensitiveKeys : Contains(LowerText(data[i][1]), sensitive)
        THEN <<data[i][1], StrValue(RedactedMarker)>>
        ELSE IF data[i][2].is_str /\ Len(data[i][2].v) > TruncateOver
        THEN <<data[i][1], StrValue(Prefix(data[i][2].v, TruncateTo) \o TruncatedMarker)>>
        ELSE data[i]]

\* RequestTracer.start_request, lines 130-152: the active map after the call
\* that drew request_id; parameters is None or the dict.
start_request(active, request_id, tool_name, parameters, session, t) ==
    LET request_info ==
            [request_id |-> request_id,
             tool_name |-> tool_name,
             parameters |-> redact_sensitive_data(IF parameters = NONE THEN <<>>
                                                  ELSE parameters),
             session |-> [session_id |-> IF session.is_none THEN NONE ELSE session.session_id,
                          user_id |-> IF session.is_none THEN NONE ELSE session.user_id,
                          auth_type |-> IF session.is_none THEN NONE ELSE session.auth_type,
                          client_ip |-> IF session.is_none THEN NONE ELSE session.client_ip],
             start_time |-> t,
             status |-> "running"]
    IN  [k \in DOMAIN active \cup {request_id} |->
            IF k = request_id THEN request_info ELSE active[k]]

\* Fault: completing a request empties the map.
complete_request_ClearsAll(active, request_id) ==
    IF request_id \notin DOMAIN active THEN [active |-> active, raised |-> "-"]
    ELSE [active |-> NoTraces, raised |-> "-"]

\* RequestTracer.complete_request run by one thread with no other in between:
\* the active map after the call, and what the call raised.
complete_request(active, request_id) ==
    IF request_id \notin DOMAIN active THEN [active |-> active, raised |-> "-"]
    ELSE [active |-> [k \in DOMAIN active \ {request_id} |-> active[k]], raised |-> "-"]

\* uuid.uuid4().hex[:8] values.
TraceIds == {"3fa90c1e", "7b2d11aa"}
TracerParameters ==
    {NONE, <<>>,
     <<<<<<"p", "a", "s", "s", "w", "o", "r", "d">>, StrValue(<<"p", "@", "s", "s">>)>>,
       <<<<"n", "o", "t", "e">>, StrValue(Rep("x", TruncateOver + 1))>>>>,
     <<<<<<"A", "P", "I", "_", "K", "E", "Y">>, StrValue(Rep("k", TruncateOver + 1))>>,
       <<<<"n">>, StrValue(Rep("x", TruncateOver))>>>>,
     <<<<<<"A", "u", "t", "h", "o", "r">>, StrValue(<<"m", "e">>)>>,
       <<<<"n", "o", "t", "e">>, ListValue(Rep("x", TruncateOver + 1))>>>>,
     <<<<<<"m", "o", "n", "k", "e", "y">>, StrValue(<<"b", "a", "r">>)>>,
       <<<<"n", "o", "t", "e">>, StrValue(<<"b", "a", "r">>)>>>>}

\* A thread calls start_request; uuid4 hands it an id no active request has.
StartRequest(w, request_id, parameters, session) ==
    /\ tr[w].at = "idle"
    /\ request_id \notin DOMAIN active_requests
    /\ active_requests' = start_request(active_requests, request_id, ToolName,
                                        parameters, session, now)
    /\ tr' = [tr EXCEPT ![w] = [at |-> "idle", did |-> "start", request_id |-> request_id,
                                raised |-> "-"]]
    /\ UNCHANGED <<envvars, now, cache, callvars, stressvars, rl, libvars>>

\* A thread calls complete_request and runs it to its end.
CompleteRequest(w, request_id) ==
    /\ tr[w].at = "idle"
    /\ LET done == complete_request(active_requests, request_id)
       IN  /\ active_requests' = done.active
           /\ tr' = [tr EXCEPT ![w] = [at |-> "idle", did |-> "complete",
                                       request_id |-> request_id, raised |-> done.raised]]
    /\ UNCHANGED <<envvars, now, cache, callvars, stressvars, rl, libvars>>

InitTracer ==
    /\ auth_mode = "none"
    /\ InitCommon

NextTracer ==
    \/ \E w \in Workers, request_id \in TraceIds, parameters \in TracerParameters,
          session \in {NoSession, QbSession(Alice, Alice, Sid1, Ip1, Word("jwt_bearer"))} :
            StartRequest(w, request_id, parameters, session)
    \/ \E w \in Workers, request_id \in TraceIds : CompleteRequest(w, request_id)

SpecTracer == InitTracer /\ [][NextTracer]_vars

\* What start_request is to store for the pair (key, value) of the parameters.
StoredFor(pair) ==
    IF \E sensitive \in SensitiveKeys : Contains(LowerText(pair[1]), sensitive)
    THEN StrValue(RedactedMarker)
    ELSE IF pair[2].is_str /\ Len(pair[2].v) > TruncateOver
    THEN StrValue(SubSeq(pair[2].v, 1, TruncateTo) \o TruncatedMarker)
    ELSE pair[2]

\* C21: for every parameter map passed to start_request, the trace stored has
\* the same keys; a key containing (in any letter case) password, token,
\* secret, key, auth or credential carries the redaction marker, another
\* string of more than 1000 characters carries its first 100 characters and
\* the truncation marker, and every other value is stored unchanged.
C21_RedactedTrace ==
    [][\A w \in Workers, request_id \in TraceIds, parameters \in TracerParameters,
          session \in {NoSession, QbSession(Alice, Alice, Sid1, Ip1, Word("jwt_bearer"))} :
            StartRequest(w, request_id, parameters, session)
                => LET given == IF parameters = NONE THEN <<>> ELSE parameters
                       stored == active_requests'[request_id].parameters
                   IN  /\ Len(stored) = Len(given)
                       /\ \A i \in 1..Len(given) :
                            /\ stored[i][1] = given[i][1]
                            /\ stored[i][2] = StoredFor(given[i])]_vars

\* An active trace whose parameters hold a redacted value under a key written
\* in capitals and another with a truncated value.
C21_Witness ==
    /\ \E k \in DOMAIN active_requests :
         \E i \in 1..Len(active_requests[k].parameters) :
            /\ Contains(active_requests[k].parameters[i][1], <<"K", "E", "Y">>)
            /\ active_requests[k].parameters[i][2] = StrValue(RedactedMarker)
    /\ \E k \in DOMAIN active_requests :
         \E i \in 1..Len(active_requests[k].parameters) :
            Len(active_requests[k].parameters[i][2].v) = TruncateTo + Len(TruncatedMarker)

\* C22: complete_request(id) on an active trace removes that trace and leaves
\* every other active trace as it was; on an id that is not active it changes
\* nothing; it raises nothing either way, and every trace of the active map
\* has status "running".
C22_CompleteRemovesExactlyOne ==
    [][\A w \in Workers, request_id \in TraceIds :
            CompleteRequest(w, request_id)
                => /\ tr'[w].raised = "-"
                   /\ DOMAIN active_requests' = DOMAIN active_requests \ {request_id}
                   /\ \A k \in DOMAIN active_requests' :
                        /\ active_requests'[k] = active_requests[k]
                        /\ active_requests'[k].status = "running"]_vars

\* A thread has completed one of two active traces, the other is still
\* active; it then completes the same id again.
C22_Witness ==
    /\ \E w \in Workers :
         /\ tr[w].at = "idle"
         /\ tr[w] # IdleWorker
         /\ tr[w].did = "complete"
         /\ tr[w].request_id \notin DOMAIN active_requests
         /\ ENABLED CompleteRequest(w, tr[w].request_id)
    /\ active_requests # NoTraces

\* C23: in mode none the assume_user of a call is its X-Assume-User value when
\* that value is 1 to 30 letters, digits or underscores, and None otherwise;
\* the call is passed downstream either way, never rejected.
C23_AssumeUserPattern ==
    auth_mode = "none"
        => \A c \in Calls :
            pc[c] # "idle"
                => LET value == req[c].x_assume_user
                       plain == /\ value # NONE
                                /\ Len(value) \in 1..30
                                /\ \A i \in 1..Len(value) :
                                     value[i] \in Range(LowerLetters) \cup Range(UpperLetters)
                                                    \cup Range(Digits) \cup {"_"}
                   IN  /\ assume_user[c] = IF plain THEN value ELSE NONE
                       /\ outcome[c] = "passed"
                       /\ pc[c] \in {"downstream", "done"}

\* Calls in mode none that went through downstream: one whose header of 31
\* characters was ignored, one whose header of 30 characters was taken.
C23_Witness ==
    /\ auth_mode = "none"
    /\ \E c, d \in Calls :
        /\ pc[c] = "done" /\ Len(req[c].x_assume_user) = 31 /\ assume_user[c] = NONE
        /\ observed[c].stored /\ observed[c].assume_user = NONE
        /\ pc[d] = "done" /\ Len(req[d].x_assume_user) = 30
        /\ assume_user[d] = req[d].x_assume_user

\* C24 as stated: whatever the registry, the time of day and max_age (the
\* default of 24 hours included), cleanup_expired_sessions ends without error
\* and leaves in the registry exactly the sessions whose last_activity is not
\* older than now minus max_age.
C24_CleanupRemovesExpired ==
    (fin.kind = "cleanup" /\ fout.done)
        => /\ fout.cleaned.raised = "-"
           /\ DOMAIN fout.cleaned.sessions
                = {k \in DOMAIN fin.sessions :
                     ~(fin.sessions[k].last_activity < fin.utcnow - fin.max_age_hours)}
           /\ \A k \in DOMAIN fout.cleaned.sessions :
                fout.cleaned.sessions[k] = fin.sessions[k]

\* C30 as stated: the registry holds one session per id, and no call of
\* create_session_from_headers changes the user of a session id that is
\* already in the registry.
C30_SessionIdentityKept ==
    [][\A k \in DOMAIN sessions :
            /\ k \in DOMAIN sessions'
            /\ sessions'[k].user_id = sessions[k].user_id]_vars

\* The value of the claim name in the claims drawn, None when it is missing
\* or empty.
ClaimValue(name) ==
    IF name \in DOMAIN fin.claims /\ Truthy(fin.claims[name]) THEN fin.claims[name] ELSE NONE
\* text up to its first '@' or backslash
SamPrefix(text) ==
    LET stops == {i \in 1..Len(text) : text[i] \in {"@", "\\"}}
    IN  IF stops = {} THEN text
        ELSE SubSeq(text, 1, (CHOOSE i \in stops : \A j \in stops : i <= j) - 1)

C26_AuditSetBeforeTool ==
    \A c \in Calls :
        (pc[c] = "done" /\ result[c].status = "executed")
            => /\ result[c].conn = <<"set_query_band", "tool">>
               /\ result[c].queryband # <<>>

\* C27: within one call the validator is invoked at most once and opens at
\* most one probe connection; a call whose validation failed is rejected
\* without a second attempt and without a cache entry.
C27_OneProbePerCall ==
    \A c \in Calls :
        /\ ghost[c].validations <= 1
        /\ ghost[c].probes <= 1
        /\ (ghost[c].validations = 1 /\ ~Truthy(ghost[c].v.principal))
            => /\ pc[c] = "rejected"
               /\ outcome[c] \notin {"", "passed"}
               /\ ghost[c].sets = 0

\* Two calls with the same credential, each rejected after its own single
\* failed probe.
C27_Witness ==
    \E c, d \in Calls :
        /\ c # d
        /\ req[c].authorization = req[d].authorization
        /\ req[c].session_id = req[d].session_id
        /\ pc[c] = "rejected" /\ ghost[c].probes = 1 /\ ghost[c].validations = 1
        /\ pc[d] = "rejected" /\ ghost[d].probes = 1 /\ ghost[d].validations = 1

\* C28 as stated: on every exit path of a probe (successful query, connection
\* failure, failed query, timeout) the connection that was opened is closed
\* and the engine is disposed before the validator returns.
C28_ProbeTornDown ==
    (fin.kind = "probe" /\ fout.done)
        => /\ "connect" \in Range(fout.events) => "close" \in Range(fout.events)
           /\ "dispose" \in Range(fout.events)

(* ------------- RequestTracer calls from several worker threads ---------- *)
\* complete_request, lines 186-188: the membership test; an unknown id ends
\* the call.
CompleteTest(w, request_id) ==
    /\ tr[w].at = "idle"
    /\ tr' = [tr EXCEPT ![w] =
                IF request_id \in DOMAIN active_requests
                THEN [at |-> "line_190", did |-> "complete", request_id |-> request_id,
                      raised |-> "-"]
                ELSE [at |-> "idle", did |-> "complete", request_id |-> request_id,
                      raised |-> "-"]]
    /\ UNCHANGED <<active_requests, envvars, now, cache, callvars, stressvars, rl, libvars>>

\* complete_request, lines 190-223: the trace is read from the map (KeyError
\* when it is no longer there) and updated in place.
CompleteUpdate(w) ==
    /\ tr[w].at = "line_190"
    /\ IF tr[w].request_id \in DOMAIN active_requests
       THEN /\ active_requests' =
                    [active_requests EXCEPT ![tr[w].request_id].status = "completed"]
            /\ tr' = [tr EXCEPT ![w].at = "line_226"]
       ELSE /\ tr' = [tr EXCEPT ![w].at = "idle", ![w].raised = "KeyError"]
            /\ UNCHANGED active_requests
    /\ UNCHANGED <<envvars, now, cache, callvars, stressvars, rl, libvars>>

\* complete_request, line 226: del self.active_requests[request_id] (KeyError
\* when the id is no longer there).
CompleteDelete(w) ==
    /\ tr[w].at = "line_226"
    /\ IF tr[w].request_id \in DOMAIN active_requests
       THEN /\ active_requests' = [k \in DOMAIN active_requests \ {tr[w].request_id} |->
                                      active_requests[k]]
            /\ tr' = [tr EXCEPT ![w].at = "idle"]
       ELSE /\ tr' = [tr EXCEPT ![w].at = "idle", ![w].raised = "KeyError"]
            /\ UNCHANGED active_requests
    /\ UNCHANGED <<envvars, now, cache, callvars, stressvars, rl, libvars>>

NextThreads ==
    \/ \E w \in Workers, request_id \in TraceIds, session \in {NoSession} :
            StartRequest(w, request_id, NONE, session)
    \/ \E w \in Workers, request_id \in TraceIds : CompleteTest(w, request_id)
    \/ \E w \in Workers : CompleteUpdate(w)
    \/ \E w \in Workers : CompleteDelete(w)

SpecThreads == InitTracer /\ [][NextThreads]_vars

\* C29 as stated: whatever the interleaving of start_request and
\* complete_request calls of the worker threads, two complete_request calls
\* for the same id included, no call ends with an error, and a trace that is
\* still in the active map is as start_request stored it.
C29_TracerCallsAtomic ==
    /\ \A w \in Workers : tr[w] # IdleWorker => tr[w].raised = "-"
    /\ \A k \in DOMAIN active_requests :
         (\A w \in Workers : tr[w].at = "idle") => active_requests[k].status = "running"

====
